---- MODULE Spec2Model ----
(***************************************************************************)
(* A model of the cpspg samples: the cross-platform wrappers around the    *)
(* operating system's pipes, processes and named pipes, each with its      *)
(* POSIX and its Windows backing, together with the kernel objects the     *)
(* wrappers act on.                                                        *)
(***************************************************************************)
EXTENDS Integers, Sequences, FiniteSets, TLC

VARIABLES
    os,         \* the backing the program was built for: "unix" or "win"
    \* ---- unnamed pipe (pipe.c)
    pcreated,   \* pipe_create has succeeded
    pbuf,       \* bytes in the kernel's pipe buffer
    rdopen,     \* the read descriptor is open
    wropen,     \* the write descriptor is open
    written,    \* every byte the pipe accepted from pipe_write, in order
    got,        \* every byte pipe_read handed to the caller, in order
    rdlog,      \* return values of the pipe_read calls made on the open read
                \* end after the write end was closed
    pret,       \* return value of the last pipe call
    \* ---- child process (ps-exec.c, samples/ps-exec-wait.c)
    child,      \* the child process and the parent's handle to it
    pslast,     \* the step just taken: the call and its arguments
    psret,      \* return value of the last ps_* call
    pserr,      \* the last error (errno, GetLastError)
    pscode,     \* the caller's exit_code variable
    wpc,        \* where main() of ps-exec-wait.c stands
    \* ---- child with redirected streams (samples/ps-exec-out.c)
    pfd,        \* the parent's descriptors (handles): the object each names
    ei,         \* the ps_execinfo bindings handed to ps_exec_info
    cstd,       \* the child's standard streams: the object each names
    inherit,    \* handles ps_exec_info has marked inheritable (Windows)
    \* ---- named pipe (samples-sys/pipe-named.c)
    nfile,      \* POSIX: the socket file exists under the name
    lsn,        \* the server's listening pipe: "none", "open" or "closed"
    inst,       \* Windows: the pipe instance behind the listening handle
    backlog,    \* POSIX: clients whose connect completed, not yet accepted
    srv,        \* the server: inside pipe_accept; has released a connection
    cli,        \* each client: its state and the bytes it has written
    chan,       \* each connection: bytes in flight and bytes the server read
    sfd,        \* the server's end of each connection: none, open, closed
    nplast,     \* the named-pipe step just taken
    npret,      \* its return value
    \* ---- named semaphore (samples-sys/semaphore.c)
    semname,    \* the semaphore the name refers to, 0 when the name is free
    sobj,       \* the semaphores of the system: counter and its history
    sh,         \* each process's handle s, CPSEM_NULL when it has none
    spc,        \* each process: "idle", or "waiting" inside cpsem_wait
    smain,      \* each instance of the sample: its position in main
    semlast,    \* the semaphore step just taken
    semret,     \* its return value
    \* ---- CPU exceptions (samples/signal-cpu-exception.c)
    sigusr,     \* _sig_userhandler, 0 while unset
    sigact,     \* POSIX: how each signal is handled: dfl, plain or onstack
    sigfilter,  \* Windows: _sig_exc_handler is the unhandled-exception filter
    sigalt,     \* POSIX: an alternate signal stack is set
    sigps,      \* the process: running, retry (back at the faulting
                \* instruction) or dead
    sigpend,    \* the exception being handled
    siglog,     \* the calls of the user's handler so far
    sublast,    \* the handler passed to the latest sig_subscribe
    siglast,    \* the step just taken
    sigret,     \* its return value
    \* ---- Ctrl+C (samples/signal-interrupt.c)
    sigprog,    \* which of the two sample programs the process is, once
                \* it has taken a step: none, exception or interrupt
    intusr,     \* sig_userhandler, 0 while unset
    intreg,     \* sig_handler is set for SIGINT; sig_ctrl_handler is in
                \* the console's handler list
    intps,      \* the process: running or dead
    intlog,     \* the handlers called so far
    intsub,     \* the handler passed to the latest sig_int_subscribe
    \* ---- main of samples/signal-interrupt.c
    quit,       \* the global quit, in memory
    imain,      \* where main stands: start, loop or done
    ir,         \* main's counter r
    ibuild,     \* how the build tests quit in the loop: "reload" reads the
                \* memory at every test, "hoist" reads it once
    iquitreg,   \* the value of quit the hoisting build read, -1 before
    \* ---- the command line of ps_exec, Windows (ps-exec.c)
    clargv,     \* argv of the latest call
    clres,      \* what the call did: its return, wargs, n and the stores
    \* ---- main of samples/ps-exec-out.c
    eom,        \* where main stands
    eobuf,      \* bytes in the pipe
    eosent,     \* bytes the child has written to the pipe
    eon,        \* main's n, the value pipe_read returned
    \* ---- std-echo.c
    ekind,      \* what stdin and stdout are: "pipe" or "console"
    ein,        \* the bytes of the input not yet read, as UTF-8
    eread,      \* every byte stdin_read has returned, in order
    echunk,     \* main's d and r: the bytes of buf not yet written
    eout,       \* what has reached stdout, in order: bytes, or the
                \* characters written to a console
    epos,       \* where main stands: init, read, write, done or abort
    er,         \* the value the last stdin_read returned
    \* ---- descriptors of the named-pipe calls (samples-sys/pipe-named.c)
    npfds,      \* POSIX: the socket descriptors the process has open
    npcall      \* the latest pipe_create_named or pipe_connect: what it
                \* was given, what it did and what it returned

pipeVars == <<pcreated, pbuf, rdopen, wropen, written, got, rdlog, pret>>
psVars == <<child, pslast, psret, pserr, pscode, wpc>>
eoVars == <<pfd, ei, cstd, inherit>>
npVars == <<nfile, lsn, inst, backlog, srv, cli, chan, sfd, nplast, npret>>

semVars == <<semname, sobj, sh, spc, smain, semlast, semret>>

sigVars == <<sigusr, sigact, sigfilter, sigalt, sigps, sigpend, siglog,
             sublast, siglast, sigret, sigprog, intusr, intreg, intps,
             intlog, intsub>>
intVars == <<intusr, intreg, intps, intlog, intsub>>
excVars == <<sigusr, sigact, sigfilter, sigalt, sigps, sigpend, siglog,
             sublast, siglast, sigret>>

imVars == <<quit, imain, ir, ibuild, iquitreg>>

\* the drivers and functions modelled on their own
clVars == <<clargv, clres>>
eomVars == <<eom, eobuf, eosent, eon>>
echoVars == <<ekind, ein, eread, echunk, eout, epos, er>>
npeVars == <<npfds, npcall>>
drvVars == <<imVars, clVars, eomVars, echoVars, npeVars>>

vars == <<os, pipeVars, psVars, eoVars, npVars, semVars, sigVars, drvVars>>

\* what the steps of one sample leave alone
notPipeVars == <<psVars, eoVars, npVars, semVars, sigVars, drvVars>>
notPsVars == <<pipeVars, eoVars, npVars, semVars, sigVars, drvVars>>
notEoVars == <<pipeVars, wpc, pscode, npVars, semVars, sigVars, drvVars>>
notNpVars == <<pipeVars, psVars, eoVars, semVars, sigVars, drvVars>>
notSemVars == <<pipeVars, psVars, eoVars, npVars, sigVars, drvVars>>
notSigVars == <<pipeVars, psVars, eoVars, npVars, semVars, drvVars>>
notDrvVars == <<pipeVars, psVars, eoVars, npVars, semVars>>
\* what main of ps-exec-out.c leaves alone
notEoMainVars == <<pipeVars, wpc, pscode, npVars, semVars, sigVars, imVars,
                   clVars, echoVars, npeVars>>

\* ---- bounds of the model
MaxData == 3        \* bytes a run writes to the pipe in total
PipeCap == 2        \* capacity of the kernel's pipe buffer
MaxReads == 5       \* pipe_read calls recorded in rdlog
MaxClients == 2     \* clients of the named pipe
MaxMsg == 2         \* bytes the clients write to the named pipe, in all
MaxProcs == 2       \* processes using the named semaphore
MaxSems == 2        \* semaphores alive at a time (one linked, others unlinked)
MaxInit == 1        \* initial values passed to cpsem_open
MaxCount == 1       \* counter value up to which cpsem_post is called
MaxKinds == 2       \* length of the sigs array passed to sig_subscribe
MaxHandlers == 2    \* different handler functions subscribed
MaxInts == 2        \* handler calls by console interrupts
MaxR == 3           \* value up to which main's counter r is told apart
WargsCap == 4       \* elements of the buffer wargs (1000 in the source)
MaxArgs == 3        \* arguments in argv
MaxArgLen == 2      \* characters of an argument
EchoCap == 2        \* bytes of std-echo's buf, and characters of the
                    \* buffers w (1000 in the source)
MaxEcho == 2        \* characters of std-echo's input
NameSlack == 2      \* name lengths tried on either side of what sun_path holds
MaxSocks == 2       \* socket descriptors the process can have open

Byte == {0, 1}
OSes == {"unix", "win"}

Min(a, b) == IF a < b THEN a ELSE b

Take(s, n) == SubSeq(s, 1, n)
Drop(s, n) == SubSeq(s, n + 1, Len(s))

\* Sequences over S of length 1..n
RECURSIVE SeqsUpTo(_, _)
SeqsUpTo(S, n) ==
    IF n = 0 THEN {}
    ELSE LET shorter == SeqsUpTo(S, n - 1)
         IN  {<<x>> : x \in S} \cup shorter
                \cup {Append(s, x) : s \in shorter, x \in S}

\* Sequences over S of length 0..n
SeqsFrom0(S, n) == {<<>>} \cup SeqsUpTo(S, n)

(***************************************************************************)
(* Unnamed pipe: pipe.c                                                    *)
(***************************************************************************)

ERROR_BROKEN_PIPE == "ERROR_BROKEN_PIPE"
ERROR_INVALID_HANDLE == "ERROR_INVALID_HANDLE"

\* read(2) on the pipe's read descriptor handing over n bytes: the value it
\* returns.  fdopen: the descriptor is open; n = 0 with the buffer empty and
\* every write descriptor closed is the end of the stream.
sys_read(fdopen, n) == IF fdopen THEN n ELSE -1

\* ReadFile on the pipe's read handle: [ok, rd, err].  With the buffer empty
\* and every write handle closed it fails with ERROR_BROKEN_PIPE.
ReadFile(hopen, n, eof) ==
    IF ~hopen THEN [ok |-> FALSE, rd |-> 0, err |-> ERROR_INVALID_HANDLE]
    ELSE IF eof THEN [ok |-> FALSE, rd |-> 0, err |-> ERROR_BROKEN_PIPE]
    ELSE [ok |-> TRUE, rd |-> n, err |-> "none"]

pipe_read_unix(fdopen, n) == sys_read(fdopen, n)

pipe_read_win_nocheck(r) == IF ~r.ok THEN -1 ELSE r.rd

pipe_read_win(r) ==
    IF ~r.ok
    THEN IF r.err = ERROR_BROKEN_PIPE THEN 0 ELSE -1
    ELSE r.rd

\* pipe_create: ok is whether the kernel grants the pipe.
pipe_create(ok) ==
    /\ ~pcreated
    /\ pcreated' = ok
    /\ rdopen' = ok
    /\ wropen' = ok
    /\ pret' = IF ok THEN 0 ELSE IF os = "unix" THEN -1 ELSE 1
    /\ UNCHANGED <<os, notPipeVars, pbuf, written, got, rdlog>>

\* pipe_write(w, data, size): the kernel accepts the first n bytes, n >= 1, as
\* the free space allows; with the buffer full the call blocks.  Writing on a
\* closed descriptor, or with no reader left, fails.
pipe_write(data) ==
    /\ pcreated
    /\ Len(written) + Len(data) <= MaxData
    /\ IF wropen /\ rdopen
       THEN \E n \in 1..Min(Len(data), PipeCap - Len(pbuf)) :
                /\ pbuf' = pbuf \o Take(data, n)
                /\ written' = written \o Take(data, n)
                /\ pret' = n
       ELSE /\ pret' = -1
            /\ UNCHANGED <<pbuf, written>>
    /\ UNCHANGED <<os, notPipeVars, pcreated, rdopen, wropen, got, rdlog>>

\* pipe_close(w)
pipe_close_w ==
    /\ pcreated /\ wropen
    /\ wropen' = FALSE
    /\ UNCHANGED <<os, notPipeVars, pcreated, pbuf, rdopen, written, got, rdlog, pret>>

\* pipe_close(r): the kernel drops the unread bytes with the last reader.
pipe_close_r ==
    /\ pcreated /\ rdopen
    /\ rdopen' = FALSE
    /\ UNCHANGED <<os, notPipeVars, pcreated, pbuf, wropen, written, got, rdlog, pret>>

\* pipe_read(r, buf, cap): with data buffered the kernel hands over n bytes,
\* 1 <= n <= cap; with the buffer empty it blocks while a writer is left.
pipe_read(cap) ==
    /\ pcreated
    /\ Len(rdlog) < MaxReads
    /\ ~rdopen \/ pbuf # <<>> \/ ~wropen
    /\ \E n \in 0..Min(cap, Len(pbuf)) :
         /\ rdopen /\ pbuf # <<>> => n >= 1
         /\ ~rdopen => n = 0
         /\ LET eof == pbuf = <<>>
                ret == IF os = "unix" THEN pipe_read_unix(rdopen, n)
                       ELSE pipe_read_win(ReadFile(rdopen, n, eof))
            IN  /\ pret' = ret
                /\ got' = got \o Take(pbuf, n)
                /\ pbuf' = Drop(pbuf, n)
                /\ rdlog' = IF rdopen /\ ~wropen THEN Append(rdlog, ret)
                            ELSE rdlog
    /\ UNCHANGED <<os, notPipeVars, pcreated, rdopen, wropen, written>>

InitPipe ==
    /\ pcreated = FALSE
    /\ pbuf = <<>>
    /\ rdopen = FALSE
    /\ wropen = FALSE
    /\ written = <<>>
    /\ got = <<>>
    /\ rdlog = <<>>
    /\ pret = 0

(***************************************************************************)
(* Child process: ps-exec.c, samples/ps-exec-wait.c                        *)
(***************************************************************************)

_PS_NULL == -1
SIGKILL == 9
SIGSEGV == 11
WAIT_OBJECT_0 == 0
WAIT_TIMEOUT == 258
WAIT_FAILED == -1
TERMINATE_CODE == -9
EXEC_FAILED_CODE == 255
\* the process descriptor ps_exec returns for the child
ChildPs == 1

ERR_TIMEDOUT == IF os = "unix" THEN "ETIMEDOUT" ELSE "WSAETIMEDOUT"

\* A 32-bit value (DWORD, UINT) is written as the int with the same bits,
\* which is what the casts between int, UINT and DWORD keep: WAIT_FAILED,
\* 0xFFFFFFFF, is -1, and the exit code (UINT)-9 is -9.

\* Exit codes a child may end with by itself: the low 8 bits of exit()'s
\* argument on POSIX, any 32-bit value on Windows.
ExitCodes == IF os = "unix" THEN {0, 1, SIGKILL, 255}
             ELSE {0, 1, 255, TERMINATE_CODE}
\* Signals, other than ps_kill's, that may end a POSIX child.
FatalSignals == {SIGSEGV}

NoChild ==
    [st |-> "none",         \* none | running | exited (not reaped) | reaped
     killreq |-> FALSE,     \* a forced termination is under way
     how |-> "none",        \* none | exit (normal) | kill (abnormal)
     status |-> 0,          \* exit code, or the number of the signal
     hopen |-> FALSE,       \* the parent's process handle is open
     started |-> FALSE,     \* the program named by filename was started
     waitok |-> 0,          \* ps_wait calls that returned 0
     killok |-> FALSE,      \* ps_kill returned 0 while the child was running
     badclose |-> FALSE]    \* ps_close was applied after a successful ps_wait

Call(op) == [op |-> op, block |-> 0, ec |-> FALSE, path |-> "-", refuse |-> FALSE]

\* The handle is usable: it names the child, and on Windows it is open.
HandleLive(c) == IF os = "unix" THEN c.st \in {"running", "exited"} ELSE c.hopen

----
\* ps_exec, POSIX.  refuse: vfork() fails.  The parent resumes once the child
\* has called execve or _exit: with the program missing the child has
\* already exited with 255.
ps_exec_unix(path, refuse) ==
    IF refuse
    THEN /\ psret' = -1
         /\ pserr' = "EAGAIN"
         /\ child' = child
    ELSE /\ psret' = ChildPs
         /\ pserr' = pserr
         /\ child' = IF path = "ok"
                     THEN [NoChild EXCEPT !.st = "running", !.hopen = TRUE,
                                          !.started = TRUE]
                     ELSE [NoChild EXCEPT !.st = "exited", !.hopen = TRUE,
                                          !.how = "exit",
                                          !.status = EXEC_FAILED_CODE]

\* ps_exec, Windows.  fits: filename fits the 1000-element buffer wfn.
ps_exec_win(path, refuse, fits) ==
    IF ~fits
    THEN /\ psret' = _PS_NULL
         /\ pserr' = "ERROR_INSUFFICIENT_BUFFER"
         /\ child' = child
    ELSE IF path # "ok" \/ refuse
    THEN /\ psret' = _PS_NULL
         /\ pserr' = IF path # "ok" THEN "ERROR_FILE_NOT_FOUND"
                     ELSE "ERROR_NOT_ENOUGH_MEMORY"
         /\ child' = child
    ELSE /\ psret' = ChildPs
         /\ pserr' = pserr
         /\ child' = [NoChild EXCEPT !.st = "running", !.hopen = TRUE,
                                     !.started = TRUE]

ps_exec(path, refuse, fits) ==
    /\ child.st = "none"
    /\ pslast' = [Call("ps_exec") EXCEPT !.path = path, !.refuse = refuse]
    /\ IF os = "unix" THEN ps_exec_unix(path, refuse)
       ELSE ps_exec_win(path, refuse, fits)
    /\ UNCHANGED <<os, pscode>>

----
\* waitid(P_PID, p, &s, WEXITED | f): [r, errno, si_pid, si_code, si_status].
\* With WNOHANG and the child still running it returns 0 and leaves si_pid 0.
waitid(c) ==
    IF c.st \in {"none", "reaped"}
    THEN [r |-> -1, errno |-> "ECHILD", si_pid |-> 0, si_code |-> "none",
          si_status |-> 0]
    ELSE IF c.st = "running"
    THEN [r |-> 0, errno |-> "none", si_pid |-> 0, si_code |-> "none",
          si_status |-> 0]
    ELSE [r |-> 0, errno |-> "none", si_pid |-> ChildPs,
          si_code |-> IF c.how = "exit" THEN "CLD_EXITED" ELSE "CLD_KILLED",
          si_status |-> c.status]

\* The exit code ps_wait stores on POSIX.
exit_code_unix_plain(s) == s.si_status

exit_code_unix(s) ==
    IF s.si_code = "CLD_EXITED" THEN s.si_status ELSE -s.si_status

\* The child after one more ps_wait that returned 0.
Waited(c) == [c EXCEPT !.waitok = Min(c.waitok + 1, 2)]

\* What a successful waitid does to the child: it is reaped.
reaped_unix_keep(c) == c

reaped_unix(c) == [c EXCEPT !.st = "reaped"]

ps_wait_unix_nopid(block, ec) ==
    LET s == waitid(child)
    IN  IF s.r # 0
        THEN /\ psret' = -1
             /\ pserr' = s.errno
             /\ UNCHANGED <<child, pscode>>
        ELSE /\ psret' = 0
             /\ pserr' = pserr
             /\ pscode' = IF ec THEN exit_code_unix(s) ELSE pscode
             /\ child' = Waited(IF s.si_pid = 0 THEN child
                                ELSE reaped_unix(child))

ps_wait_unix(block, ec) ==
    LET s == waitid(child)
    IN  IF s.r # 0
        THEN /\ psret' = -1
             /\ pserr' = s.errno
             /\ UNCHANGED <<child, pscode>>
        ELSE IF s.si_pid = 0
        THEN /\ psret' = -1
             /\ pserr' = "ETIMEDOUT"
             /\ UNCHANGED <<child, pscode>>
        ELSE /\ psret' = 0
             /\ pserr' = pserr
             /\ pscode' = IF ec THEN exit_code_unix(s) ELSE pscode
             /\ child' = Waited(reaped_unix(child))

\* WaitForSingleObject(p, timeout_ms) on the process handle.
WaitForSingleObject(c) ==
    IF ~c.hopen THEN WAIT_FAILED
    ELSE IF c.st = "running" THEN WAIT_TIMEOUT
    ELSE WAIT_OBJECT_0

\* GetExitCodeProcess(p, (DWORD*)exit_code): the process's exit code, as is.
exit_code_win(c) == c.status

\* What ps_wait does to the handle after WAIT_OBJECT_0: CloseHandle(p).
closed_win_keep(c) == c

closed_win(c) == [c EXCEPT !.hopen = FALSE]

ps_wait_win(block, ec) ==
    LET r == WaitForSingleObject(child)
    IN  IF r = WAIT_OBJECT_0
        THEN /\ psret' = 0
             /\ pserr' = pserr
             /\ pscode' = IF ec THEN exit_code_win(child) ELSE pscode
             /\ child' = Waited(closed_win(child))
        ELSE IF r = WAIT_TIMEOUT
        THEN /\ psret' = r
             /\ pserr' = "WSAETIMEDOUT"
             /\ UNCHANGED <<child, pscode>>
        ELSE /\ psret' = r
             /\ pserr' = ERROR_INVALID_HANDLE
             /\ UNCHANGED <<child, pscode>>

\* ps_wait(p, block, exit_code).  A blocking wait on a running child returns
\* only after the child has ended.
ps_wait(block, ec) ==
    /\ child.st # "none"
    /\ block # 0 /\ HandleLive(child) => child.st # "running"
    /\ pslast' = [Call("ps_wait") EXCEPT !.block = block, !.ec = ec]
    /\ IF os = "unix" THEN ps_wait_unix(block, ec) ELSE ps_wait_win(block, ec)
    /\ UNCHANGED os

----
\* kill(p, SIGKILL): it succeeds while the child is running or not yet
\* reaped; the signal is delivered to a running child later.
\* TerminateProcess(p, -9): it succeeds on an open handle of a running
\* process, which then ends with that exit code.
killed_reap(c) ==
    IF c.st = "running"
    THEN [c EXCEPT !.st = IF os = "unix" THEN "reaped" ELSE "exited",
                   !.hopen = FALSE, !.how = "kill",
                   !.status = IF os = "unix" THEN SIGKILL
                              ELSE TERMINATE_CODE,
                   !.killok = TRUE]
    ELSE c

killed(c) ==
    IF c.st = "running" THEN [c EXCEPT !.killreq = TRUE, !.killok = TRUE]
    ELSE c

ps_kill_unix ==
    IF child.st \in {"running", "exited"}
    THEN /\ psret' = 0
         /\ pserr' = pserr
         /\ child' = killed(child)
    ELSE /\ psret' = -1
         /\ pserr' = "ESRCH"
         /\ child' = child

ps_kill_win ==
    IF child.hopen /\ child.st = "running"
    THEN /\ psret' = 0
         /\ pserr' = pserr
         /\ child' = killed(child)
    ELSE /\ psret' = 1
         /\ pserr' = IF child.hopen THEN "ERROR_ACCESS_DENIED"
                     ELSE ERROR_INVALID_HANDLE
         /\ child' = child

ps_kill ==
    /\ child.st # "none"
    /\ pslast' = Call("ps_kill")
    /\ IF os = "unix" THEN ps_kill_unix ELSE ps_kill_win
    /\ UNCHANGED <<os, pscode>>

\* ps_close(p): a no-op on POSIX, CloseHandle(p) on Windows.
ps_close ==
    /\ child.st # "none"
    /\ pslast' = Call("ps_close")
    /\ child' = [child EXCEPT
                   !.hopen = IF os = "unix" THEN child.hopen ELSE FALSE,
                   !.badclose = child.badclose \/ child.waitok > 0]
    /\ UNCHANGED <<os, psret, pserr, pscode>>

\* ps_id(p): the pid; GetProcessId fails with 0 on a closed handle.
ps_id ==
    /\ child.st # "none"
    /\ pslast' = Call("ps_id")
    /\ psret' = IF os = "unix" \/ child.hopen THEN ChildPs ELSE 0
    /\ UNCHANGED <<os, child, pserr, pscode>>

----
\* The child, on its own: it calls exit(c) or returns from main,
child_exit(c) ==
    /\ child.st = "running" /\ ~child.killreq
    /\ pslast' = Call("child_exit")
    /\ child' = [child EXCEPT !.st = "exited", !.how = "exit", !.status = c]
    /\ UNCHANGED <<os, psret, pserr, pscode>>

\* it is ended by a signal of its own (POSIX),
child_signal(sig) ==
    /\ os = "unix"
    /\ child.st = "running" /\ ~child.killreq
    /\ pslast' = Call("child_signal")
    /\ child' = [child EXCEPT !.st = "exited", !.how = "kill", !.status = sig]
    /\ UNCHANGED <<os, psret, pserr, pscode>>

\* or the termination ps_kill asked for completes.
child_die ==
    /\ child.st = "running" /\ child.killreq
    /\ pslast' = Call("child_die")
    /\ child' = [child EXCEPT !.st = "exited", !.how = "kill",
                              !.killreq = FALSE,
                              !.status = IF os = "unix" THEN SIGKILL
                                         ELSE TERMINATE_CODE]
    /\ UNCHANGED <<os, psret, pserr, pscode>>

InitPs ==
    /\ child = NoChild
    /\ pslast = Call("none")
    /\ psret = 0
    /\ pserr = "none"
    /\ pscode = 0
    /\ wpc = "exec"

ChildExit == (\E c \in ExitCodes : child_exit(c)) /\ UNCHANGED <<wpc, notPsVars>>
ChildSignal ==
    (\E sig \in FatalSignals : child_signal(sig)) /\ UNCHANGED <<wpc, notPsVars>>
ChildDie == child_die /\ UNCHANGED <<wpc, notPsVars>>

\* Any caller of the ps_* functions, with one child.
CallExec ==
    /\ \E path \in {"ok", "missing"}, refuse \in BOOLEAN, fits \in BOOLEAN :
         ps_exec(path, refuse, fits)
    /\ UNCHANGED <<wpc, notPsVars>>
CallWait ==
    /\ \E block \in {0, 1}, ec \in BOOLEAN : ps_wait(block, ec)
    /\ UNCHANGED <<wpc, notPsVars>>
CallKill == ps_kill /\ UNCHANGED <<wpc, notPsVars>>
CallClose == ps_close /\ UNCHANGED <<wpc, notPsVars>>
CallId == ps_id /\ UNCHANGED <<wpc, notPsVars>>

NextPs ==
    \/ CallExec
    \/ CallWait
    \/ CallKill
    \/ CallClose
    \/ CallId
    \/ ChildExit
    \/ ChildSignal
    \/ ChildDie

----
\* main() of samples/ps-exec-wait.c; a failed assert ends it ("abort").
main_exec ==
    /\ wpc = "exec"
    /\ \E path \in {"ok", "missing"}, refuse \in BOOLEAN, fits \in BOOLEAN :
         ps_exec(path, refuse, fits)
    /\ wpc' = IF psret' # _PS_NULL THEN "id" ELSE "abort"
    /\ UNCHANGED notPsVars

main_id ==
    /\ wpc = "id"
    /\ ps_id
    /\ wpc' = "wait0"
    /\ UNCHANGED notPsVars

main_wait0 ==
    /\ wpc = "wait0"
    /\ ps_wait(0, TRUE)
    /\ wpc' = IF psret' # 0 THEN "errchk" ELSE "abort"
    /\ UNCHANGED notPsVars

main_errchk ==
    /\ wpc = "errchk"
    /\ pslast' = Call("err_last")
    /\ wpc' = IF pserr = ERR_TIMEDOUT THEN "kill" ELSE "abort"
    /\ UNCHANGED <<os, child, psret, pserr, pscode, notPsVars>>

main_kill ==
    /\ wpc = "kill"
    /\ ps_kill
    /\ wpc' = IF psret' = 0 THEN "wait1" ELSE "abort"
    /\ UNCHANGED notPsVars

main_wait1 ==
    /\ wpc = "wait1"
    /\ ps_wait(1, TRUE)
    /\ wpc' = IF psret' = 0 THEN "codechk" ELSE "abort"
    /\ UNCHANGED notPsVars

main_codechk ==
    /\ wpc = "codechk"
    /\ pslast' = Call("assert_code")
    /\ wpc' = IF pscode = -9 THEN "close" ELSE "abort"
    /\ UNCHANGED <<os, child, psret, pserr, pscode, notPsVars>>

main_close ==
    /\ wpc = "close"
    /\ ps_close
    /\ wpc' = "done"
    /\ UNCHANGED notPsVars

NextWaitMain ==
    \/ main_exec
    \/ main_id
    \/ main_wait0
    \/ main_errchk
    \/ main_kill
    \/ main_wait1
    \/ main_codechk
    \/ main_close
    \/ ChildExit
    \/ ChildSignal
    \/ ChildDie

\* The handle has been released: reaped on POSIX, closed on Windows.
Consumed(c) == IF os = "unix" THEN c.st = "reaped" ELSE ~c.hopen

\* 0: no handle, 1: Running, 2: Terminated, 3: Closed
Life(c) ==
    IF c.st = "none" THEN 0
    ELSE IF Consumed(c) THEN 3
    ELSE IF c.st = "running" THEN 1
    ELSE 2

\* The exit code a successful ps_wait stores for a child that ended this way.
Reported(how, status) ==
    IF os = "unix"
    THEN exit_code_unix([si_code |-> IF how = "exit" THEN "CLD_EXITED"
                                     ELSE "CLD_KILLED",
                         si_status |-> status])
    ELSE exit_code_win([status |-> status])

\* The ways a child can end abnormally: [how, status]
AbnormalStatus ==
    IF os = "unix" THEN FatalSignals \cup {SIGKILL} ELSE {TERMINATE_CODE}

(***************************************************************************)
(* Child with redirected standard streams: samples/ps-exec-out.c           *)
(***************************************************************************)

PIPE_NULL == -1
STDIN_FILENO == 0
STDOUT_FILENO == 1
STDERR_FILENO == 2

Streams == {"in", "out", "err"}
StdFd(s) == CASE s = "in" -> STDIN_FILENO
              [] s = "out" -> STDOUT_FILENO
              [] s = "err" -> STDERR_FILENO

\* The parent's descriptors: the standard ones and room for the pipe's two.
Fds == STDIN_FILENO..(STDERR_FILENO + 2)
OpenFds(t) == {f \in Fds : t[f] # "closed"}

\* pipe_create of ps-exec-out.c: the kernel hands out the two lowest free
\* descriptors, the read end first.
eo_pipe_create(ok) ==
    /\ pslast.op = "none"
    /\ pslast' = Call("pipe_create")
    /\ IF ok
       THEN LET free == Fds \ OpenFds(pfd)
                r == CHOOSE f \in free : \A g \in free : f <= g
                w == CHOOSE f \in free \ {r} : \A g \in free \ {r} : f <= g
            IN  /\ pfd' = [pfd EXCEPT ![r] = "pipe_r", ![w] = "pipe_w"]
                /\ psret' = 0
       ELSE /\ pfd' = pfd
            /\ psret' = IF os = "unix" THEN -1 ELSE 1
    /\ UNCHANGED <<os, child, pserr, ei, cstd, inherit>>

\* dup2(oldfd, newfd) in the descriptor table t; it fails, changing nothing,
\* when oldfd is not open.
dup2(t, oldfd, newfd) ==
    IF t[oldfd] = "closed" THEN t ELSE [t EXCEPT ![newfd] = t[oldfd]]

\* The descriptor table of the vfork child when it calls execve: the three
\* dup2 calls act, in this order, on the child's own copy of the table.
child_fds_unix(t, e) ==
    LET t1 == IF e.in # -1 THEN dup2(t, e.in, STDIN_FILENO) ELSE t
        t2 == IF e.out # -1 THEN dup2(t1, e.out, STDOUT_FILENO) ELSE t1
        t3 == IF e.err # -1 THEN dup2(t2, e.err, STDERR_FILENO) ELSE t2
    IN  t3

\* STARTUPINFOW's hStdInput, hStdOutput, hStdError: the handles the child
\* gets as its standard streams.  With no binding at all the structure names
\* none and the child has the parent's.
startup_handles_win(e) ==
    [s \in Streams |-> IF e[s] # PIPE_NULL THEN e[s] ELSE StdFd(s)]

ps_exec_info_unix(path, refuse, e) ==
    IF refuse
    THEN /\ psret' = -1
         /\ pserr' = "EAGAIN"
         /\ UNCHANGED <<child, cstd>>
    ELSE /\ psret' = ChildPs
         /\ pserr' = pserr
         /\ cstd' = [s \in Streams |-> child_fds_unix(pfd, e)[StdFd(s)]]
         /\ child' = IF path = "ok"
                     THEN [NoChild EXCEPT !.st = "running", !.hopen = TRUE,
                                          !.started = TRUE]
                     ELSE [NoChild EXCEPT !.st = "exited", !.hopen = TRUE,
                                          !.how = "exit",
                                          !.status = EXEC_FAILED_CODE]

ps_exec_info_win(path, refuse, fits, e) ==
    IF ~fits
    THEN /\ psret' = _PS_NULL
         /\ pserr' = "ERROR_INSUFFICIENT_BUFFER"
         /\ UNCHANGED <<child, cstd>>
    ELSE IF path # "ok" \/ refuse
    THEN /\ psret' = _PS_NULL
         /\ pserr' = IF path # "ok" THEN "ERROR_FILE_NOT_FOUND"
                     ELSE "ERROR_NOT_ENOUGH_MEMORY"
         /\ UNCHANGED <<child, cstd>>
    ELSE /\ psret' = ChildPs
         /\ pserr' = pserr
         /\ cstd' = [s \in Streams |-> pfd[startup_handles_win(e)[s]]]
         /\ child' = [NoChild EXCEPT !.st = "running", !.hopen = TRUE,
                                     !.started = TRUE]

\* ps_exec_info(filename, info), called once.  The bindings are PIPE_NULL or
\* open descriptors of the parent.
ps_exec_info(path, refuse, fits, e) ==
    /\ child.st = "none"
    /\ pslast.op \in {"none", "pipe_create"}
    /\ \A s \in Streams : e[s] = PIPE_NULL \/ e[s] \in OpenFds(pfd)
    /\ pslast' = [Call("ps_exec_info") EXCEPT !.path = path, !.refuse = refuse]
    /\ ei' = e
    /\ IF os = "unix" THEN ps_exec_info_unix(path, refuse, e)
       ELSE ps_exec_info_win(path, refuse, fits, e)
    /\ inherit' = IF os = "win" /\ fits
                  THEN inherit \cup ({e[s] : s \in Streams} \ {PIPE_NULL})
                  ELSE inherit
    /\ pfd' = pfd
    /\ UNCHANGED os

NoBinding == [s \in Streams |-> PIPE_NULL]

InitEo ==
    /\ pfd = [f \in Fds |-> CASE f = STDIN_FILENO -> "stdin"
                              [] f = STDOUT_FILENO -> "stdout"
                              [] f = STDERR_FILENO -> "stderr"
                              [] OTHER -> "closed"]
    /\ ei = NoBinding
    /\ cstd = [s \in Streams |-> "none"]
    /\ inherit = {}

EoPipeCreate == (\E ok \in BOOLEAN : eo_pipe_create(ok)) /\ UNCHANGED notEoVars
EoExecInfo ==
    /\ \E path \in {"ok", "missing"}, refuse \in BOOLEAN, fits \in BOOLEAN,
          e \in [Streams -> {PIPE_NULL} \cup Fds] :
         ps_exec_info(path, refuse, fits, e)
    /\ UNCHANGED notEoVars

\* Any caller of ps_exec_info, before or after it has created the pipe.
NextExecInfo ==
    \/ EoPipeCreate
    \/ EoExecInfo

(***************************************************************************)
(* Named pipe: samples-sys/pipe-named.c                                    *)
(***************************************************************************)

Clients == 1..MaxClients

\* Handle values: the listening pipe, and on POSIX the descriptor accept()
\* returns for the connection of client c.
ListenPipe == 0
ConnFd(c) == c

ERROR_PIPE_CONNECTED == "ERROR_PIPE_CONNECTED"
ERROR_NO_DATA == "ERROR_NO_DATA"

\* listen(p, 0): one completed connection may wait to be accepted.
LISTEN_BACKLOG == 0
BacklogRoom == Len(backlog) <= LISTEN_BACKLOG

NoInst == [st |-> "none", peer |-> 0]
\* ok: for pipe_create_named, the name fits and socket() succeeds
NpCall(op, c) == [op |-> op, c |-> c, ok |-> TRUE]

\* unlink(name), which the POSIX server calls first.
np_unlink ==
    /\ os = "unix"
    /\ ~srv.waiting
    /\ nfile' = FALSE
    /\ nplast' = NpCall("unlink", 0)
    /\ UNCHANGED <<os, lsn, inst, backlog, srv, cli, chan, sfd, npret>>

\* bind() fails with EADDRINUSE while the name exists in the file system.
bind_fails_never == FALSE

bind_fails == nfile

\* pipe_create_named, POSIX.  fits: the name and its terminator fit sun_path;
\* sock: socket() succeeds.
pipe_create_named_unix(fits, sock) ==
    IF ~fits \/ ~sock \/ bind_fails
    THEN /\ npret' = -1
         /\ UNCHANGED <<nfile, lsn, backlog>>
    ELSE /\ npret' = ListenPipe
         /\ nfile' = TRUE
         /\ lsn' = "open"
         /\ backlog' = <<>>

\* pipe_create_named, Windows.  fits: the name fits the buffer w.
\* CreateNamedPipeW with FILE_FLAG_FIRST_PIPE_INSTANCE fails while an
\* instance of the pipe exists.
pipe_create_named_win(fits) ==
    IF ~fits \/ inst.st # "none"
    THEN /\ npret' = PIPE_NULL
         /\ UNCHANGED <<lsn, inst>>
    ELSE /\ npret' = ListenPipe
         /\ lsn' = "open"
         /\ inst' = [st |-> "listening", peer |-> 0]

\* One listening pipe is followed: with it open, the call is made only where
\* it fails.
pipe_create_named(fits, sock) ==
    /\ ~srv.waiting
    /\ lsn = "open" => (IF os = "unix" THEN bind_fails ELSE inst.st # "none")
    /\ nplast' = [NpCall("pipe_create_named", 0) EXCEPT !.ok = fits /\ sock]
    /\ IF os = "unix"
       THEN pipe_create_named_unix(fits, sock) /\ UNCHANGED inst
       ELSE pipe_create_named_win(fits) /\ UNCHANGED <<nfile, backlog>>
    /\ srv' = IF lsn # "open" /\ lsn' = "open"
              THEN [srv EXCEPT !.released = FALSE] ELSE srv
    /\ UNCHANGED <<os, cli, chan, sfd>>

----
\* accept(listen_pipe) handing over the first waiting connection.
accept_unix ==
    LET c == Head(backlog)
    IN  /\ backlog' = Tail(backlog)
        /\ sfd' = [sfd EXCEPT ![c] = "open"]
        /\ npret' = ConnFd(c)
        /\ nplast' = NpCall("pipe_accept", c)

\* ConnectNamedPipe(listen_pipe, NULL) returning at once: [b, err].  It fails
\* with ERROR_PIPE_CONNECTED when a client is connected already, and with
\* ERROR_NO_DATA when that client has closed its handle since.
ConnectNamedPipe(i) ==
    IF i.st = "connected" THEN [b |-> FALSE, err |-> ERROR_PIPE_CONNECTED]
    ELSE IF i.st = "closing" THEN [b |-> FALSE, err |-> ERROR_NO_DATA]
    ELSE [b |-> FALSE, err |-> ERROR_INVALID_HANDLE]

pipe_accept_win(r) ==
    IF ~r.b
    THEN IF r.err = ERROR_PIPE_CONNECTED THEN ListenPipe ELSE PIPE_NULL
    ELSE ListenPipe

\* pipe_accept(listen_pipe) is called: it returns at once, or, with no client
\* there yet, the server waits inside it.
pipe_accept_call ==
    /\ ~srv.waiting
    /\ lsn # "none"
    /\ IF os = "unix"
       THEN IF lsn = "open" /\ backlog # <<>>
            THEN accept_unix /\ UNCHANGED <<srv, inst>>
            ELSE IF lsn = "open"
            THEN /\ srv' = [srv EXCEPT !.waiting = TRUE, !.done = FALSE]
                 /\ nplast' = NpCall("pipe_accept_wait", 0)
                 /\ UNCHANGED <<backlog, sfd, npret, inst>>
            ELSE /\ npret' = -1
                 /\ nplast' = NpCall("pipe_accept", 0)
                 /\ UNCHANGED <<backlog, sfd, srv, inst>>
       ELSE IF lsn = "open" /\ inst.st \in {"listening", "disconnected"}
            THEN /\ srv' = [srv EXCEPT !.waiting = TRUE, !.done = FALSE]
                 /\ inst' = [inst EXCEPT !.st = "listening"]
                 /\ nplast' = NpCall("pipe_accept_wait", 0)
                 /\ UNCHANGED <<backlog, sfd, npret>>
            ELSE LET h == pipe_accept_win(ConnectNamedPipe(inst))
                 IN  /\ npret' = h
                     /\ nplast' = NpCall("pipe_accept", inst.peer)
                     /\ sfd' = IF h # PIPE_NULL
                               THEN [sfd EXCEPT ![inst.peer] = "open"]
                               ELSE sfd
                     /\ UNCHANGED <<backlog, srv, inst>>
    /\ UNCHANGED <<os, nfile, lsn, cli, chan>>

\* The waiting pipe_accept returns: a client has connected meanwhile.
pipe_accept_return ==
    /\ srv.waiting
    /\ IF os = "unix"
       THEN /\ backlog # <<>>
            /\ accept_unix
            /\ UNCHANGED inst
       ELSE /\ srv.done
            /\ npret' = pipe_accept_win([b |-> TRUE, err |-> "none"])
            /\ nplast' = NpCall("pipe_accept", inst.peer)
            /\ sfd' = [sfd EXCEPT ![inst.peer] = "open"]
            /\ UNCHANGED <<backlog, inst>>
    /\ srv' = [srv EXCEPT !.waiting = FALSE, !.done = FALSE]
    /\ UNCHANGED <<os, nfile, lsn, cli, chan>>

----
\* pipe_connect(name) by client c.  POSIX: connect() fails with no listening
\* socket under the name and waits while the backlog is full.  Windows:
\* CreateFileW fails unless an instance of the pipe is listening.
pipe_connect(c, fits, sock) ==
    /\ cli[c].st = "idle"
    /\ os = "unix" /\ fits /\ sock /\ nfile /\ lsn = "open" => BacklogRoom
    /\ nplast' = NpCall("pipe_connect", c)
    /\ IF os = "unix"
       THEN IF fits /\ sock /\ nfile /\ lsn = "open"
            THEN /\ cli' = [cli EXCEPT ![c].st = "connected"]
                 /\ backlog' = Append(backlog, c)
                 /\ npret' = ConnFd(c)
                 /\ UNCHANGED <<inst, srv>>
            ELSE /\ cli' = cli
                 /\ npret' = -1
                 /\ UNCHANGED <<backlog, inst, srv>>
       ELSE IF fits /\ inst.st = "listening"
            THEN /\ cli' = [cli EXCEPT ![c].st = "connected"]
                 /\ inst' = [st |-> "connected", peer |-> c]
                 /\ srv' = [srv EXCEPT !.done = srv.waiting]
                 /\ npret' = ConnFd(c)
                 /\ UNCHANGED backlog
            ELSE /\ cli' = cli
                 /\ npret' = PIPE_NULL
                 /\ UNCHANGED <<backlog, inst, srv>>
    /\ UNCHANGED <<os, nfile, lsn, chan, sfd>>

\* The connection of client c carries data towards the server: the server's
\* end exists (accepted or still waiting to be) and has not been closed.
ServerEndLive(c) ==
    IF os = "unix"
    THEN sfd[c] = "open" \/ (sfd[c] = "none" /\ lsn = "open")
    ELSE inst.peer = c /\ inst.st = "connected"

\* bytes the clients in S have written so far
RECURSIVE SentBytes(_)
SentBytes(S) ==
    IF S = {} THEN 0
    ELSE LET c == CHOOSE x \in S : TRUE
         IN  Len(cli[c].sent) + SentBytes(S \ {c})

\* pipe_write(p, data, size) by client c on its connection.
np_write(c, data) ==
    /\ cli[c].st = "connected"
    /\ data # <<>>
    /\ SentBytes(Clients) + Len(data) <= MaxMsg
    /\ nplast' = NpCall("pipe_write", c)
    /\ IF ServerEndLive(c)
       THEN /\ cli' = [cli EXCEPT ![c].sent = @ \o data]
            /\ chan' = [chan EXCEPT ![c].buf = @ \o data]
            /\ npret' = Len(data)
       ELSE /\ npret' = -1
            /\ UNCHANGED <<cli, chan>>
    /\ UNCHANGED <<os, nfile, lsn, inst, backlog, srv, sfd>>

\* pipe_close(p) by client c.
np_client_close(c) ==
    /\ cli[c].st = "connected"
    /\ nplast' = NpCall("client_close", c)
    /\ cli' = [cli EXCEPT ![c].st = "closed"]
    /\ inst' = IF os = "win" /\ inst.peer = c /\ inst.st = "connected"
               THEN [inst EXCEPT !.st = "closing"]
               ELSE inst
    /\ UNCHANGED <<os, nfile, lsn, backlog, srv, chan, sfd, npret>>

\* pipe_read(pc, buf, cap) by the server on the connection of client c, the
\* kernel handing over n bytes; with nothing buffered the call waits while
\* the client has its end open.
np_read_unix(c, n) == n

np_read(c, cap) ==
    /\ ~srv.waiting
    /\ sfd[c] = "open"
    /\ chan[c].buf # <<>> \/ cli[c].st # "connected"
    /\ \E n \in 0..Min(cap, Len(chan[c].buf)) :
         /\ chan[c].buf # <<>> => n >= 1
         /\ npret' = IF os = "unix" THEN np_read_unix(c, n)
                     ELSE pipe_read_win(ReadFile(TRUE, n, chan[c].buf = <<>>))
         /\ chan' = [chan EXCEPT ![c].recvd = @ \o Take(chan[c].buf, n),
                                 ![c].buf = Drop(@, n)]
    /\ nplast' = NpCall("pipe_read", c)
    /\ UNCHANGED <<os, nfile, lsn, inst, backlog, srv, cli, sfd>>

\* DisconnectNamedPipe(p): the instance lets go of its client.
DisconnectNamedPipe_noop(i) == i

DisconnectNamedPipe(i) == [st |-> "disconnected", peer |-> 0]

\* pipe_peer_close(pc) by the server: close() of the accepted descriptor,
\* DisconnectNamedPipe() of the listening handle.  Unread bytes are lost.
pipe_peer_close(c) ==
    /\ ~srv.waiting
    /\ sfd[c] = "open"
    /\ nplast' = NpCall("pipe_peer_close", c)
    /\ sfd' = [sfd EXCEPT ![c] = "closed"]
    /\ chan' = [chan EXCEPT ![c].buf = <<>>]
    /\ inst' = IF os = "win" THEN DisconnectNamedPipe(inst) ELSE inst
    /\ srv' = [srv EXCEPT !.released = TRUE]
    /\ UNCHANGED <<os, nfile, lsn, backlog, cli, npret>>

\* pipe_close(p) by the server on the listening pipe.  POSIX: the connections
\* not yet accepted are dropped, and the name stays.  Windows: the handle is
\* the connection's too, and the instance goes with it.
np_close ==
    /\ ~srv.waiting
    /\ lsn = "open"
    /\ nplast' = NpCall("pipe_close", 0)
    /\ lsn' = "closed"
    /\ IF os = "unix"
       THEN /\ backlog' = <<>>
            /\ chan' = [c \in Clients |->
                          IF sfd[c] = "none" THEN [chan[c] EXCEPT !.buf = <<>>]
                          ELSE chan[c]]
            /\ UNCHANGED <<inst, sfd>>
       ELSE /\ inst' = NoInst
            /\ sfd' = [c \in Clients |->
                         IF sfd[c] = "open" THEN "closed" ELSE sfd[c]]
            /\ chan' = [c \in Clients |-> [chan[c] EXCEPT !.buf = <<>>]]
            /\ UNCHANGED backlog
    /\ UNCHANGED <<os, nfile, srv, cli, npret>>

InitNp ==
    /\ nfile \in (IF os = "unix" THEN BOOLEAN ELSE {FALSE})
    /\ lsn = "none"
    /\ inst = NoInst
    /\ backlog = <<>>
    /\ srv = [waiting |-> FALSE, done |-> FALSE, released |-> FALSE]
    /\ cli = [c \in Clients |-> [st |-> "idle", sent |-> <<>>]]
    /\ chan = [c \in Clients |-> [buf |-> <<>>, recvd |-> <<>>]]
    /\ sfd = [c \in Clients |-> "none"]
    /\ nplast = NpCall("none", 0)
    /\ npret = 0

NpUnlink == np_unlink /\ UNCHANGED notNpVars
NpCreateNamed ==
    /\ \E fits \in BOOLEAN, sock \in BOOLEAN : pipe_create_named(fits, sock)
    /\ UNCHANGED notNpVars
NpAcceptCall == pipe_accept_call /\ UNCHANGED notNpVars
NpAcceptReturn == pipe_accept_return /\ UNCHANGED notNpVars
\* Clients are interchangeable: the one to connect next is the first idle one.
NpConnect ==
    /\ \E c \in Clients, fits \in BOOLEAN, sock \in BOOLEAN :
         /\ \A d \in 1..(c - 1) : cli[d].st # "idle"
         /\ pipe_connect(c, fits, sock)
    /\ UNCHANGED notNpVars
NpWrite ==
    /\ \E c \in Clients, data \in SeqsUpTo(Byte, MaxMsg) : np_write(c, data)
    /\ UNCHANGED notNpVars
NpClientClose == (\E c \in Clients : np_client_close(c)) /\ UNCHANGED notNpVars
NpRead ==
    /\ \E c \in Clients, cap \in 1..MaxMsg : np_read(c, cap)
    /\ UNCHANGED notNpVars
NpPeerClose == (\E c \in Clients : pipe_peer_close(c)) /\ UNCHANGED notNpVars
NpClose == np_close /\ UNCHANGED notNpVars

\* A server and its clients, each calling the named-pipe functions in any
\* order that its handles allow.
NextNamed ==
    \/ NpUnlink
    \/ NpCreateNamed
    \/ NpAcceptCall
    \/ NpAcceptReturn
    \/ NpConnect
    \/ NpWrite
    \/ NpClientClose
    \/ NpRead
    \/ NpPeerClose
    \/ NpClose

(***************************************************************************)
(* Named semaphore: samples-sys/semaphore.c                                *)
(***************************************************************************)

Procs == 1..MaxProcs
Sems == 1..MaxSems

\* A handle is the semaphore it refers to; CPSEM_NULL is NULL / SEM_FAILED.
CPSEM_NULL == 0
CPSEM_CREATE == 1
SemFlags == {0, CPSEM_CREATE}

\* val: the counter.  net: the value it was created with, plus the
\* cpsem_post calls and minus the cpsem_wait calls that have returned 0 on it
\* since.  posted: one cpsem_post at least has.
NoSem == [live |-> FALSE, val |-> 0, net |-> 0, posted |-> FALSE]

\* the call just made, the semaphore it was made on, and whether the caller
\* had to wait inside it; for cpsem_open, whether it asked to create under a
\* name the system takes, and the value passed.  gone: the last value of the
\* semaphore the kernel dropped in this call, or for cpsem_open in the call
\* before it; -1 with none dropped.
SemCall(op, p, o) ==
    [op |-> op, o |-> o, blocked |-> FALSE, create |-> FALSE, v |-> 0,
     gone |-> -1]

FreeSems == {o \in Sems : ~sobj[o].live}
NewSem == CHOOSE o \in FreeSems : \A q \in FreeSems : o <= q

\* sem_open(name, O_CREAT, 0666, value) / CreateSemaphoreW(NULL, value,
\* 0xffff, wname) making the semaphore.
sem_created_stale(v) == [NoSem EXCEPT !.live = TRUE]

sem_created(v) == [NoSem EXCEPT !.live = TRUE, !.val = v, !.net = v]

\* sem_post / ReleaseSemaphore(sem, 1, NULL)
sem_posted_lost(s) == s

sem_posted(s) == [s EXCEPT !.val = @ + 1]

\* sem_wait / WaitForSingleObject(sem, -1): satisfied with the counter above
\* 0, which it takes one from.
sem_can_wait_always(s) == TRUE

sem_can_wait(s) == s.val > 0

sem_waited(s) == [s EXCEPT !.val = @ - 1]

\* the record of a cpsem_post and of a cpsem_wait that returned 0
PostDone(s) == [sem_posted(s) EXCEPT !.net = s.net + 1, !.posted = TRUE]
WaitDone(s) == [sem_waited(s) EXCEPT !.net = s.net - 1]

\* The kernel keeps semaphore o while a handle refers to it or, on POSIX,
\* while the name does.  On Windows there is nothing else to keep it.
sem_kept_by_name(o, name, handles) == os = "unix" /\ name = o

sem_kept(o, name, handles) ==
    \/ \E q \in Procs : handles[q] = o
    \/ os = "unix" /\ name = o

\* The semaphores and the name once the kernel has dropped what nothing
\* keeps.
Reclaim(objs, name, handles) ==
    [o \in Sems |-> IF objs[o].live /\ sem_kept(o, name, handles)
                    THEN objs[o] ELSE NoSem]

ReclaimName(objs, name, handles) ==
    IF name # 0 /\ sem_kept(name, name, handles) THEN name ELSE 0

\* the counter of the semaphore the kernel drops (one at most in a step)
Dropped(objs, name, handles) ==
    {objs[o].val : o \in {x \in Sems : objs[x].live
                                        /\ ~sem_kept(x, name, handles)}}

LastValue(objs, name, handles) ==
    IF Dropped(objs, name, handles) = {} THEN -1
    ELSE CHOOSE x \in Dropped(objs, name, handles) : TRUE

\* cpsem_open(name, flags, value).  fits: the name is one the system takes
\* (it converts into wname[1000]).
cpsem_open(p, flags, v, fits) ==
    /\ sh[p] = CPSEM_NULL
    /\ spc[p] = "idle"
    /\ (fits /\ flags = CPSEM_CREATE /\ semname = 0) => FreeSems # {}
    /\ IF ~fits
       THEN /\ semret' = CPSEM_NULL
            /\ UNCHANGED <<semname, sobj, sh>>
       ELSE IF semname # 0
       THEN /\ semret' = semname
            /\ sh' = [sh EXCEPT ![p] = semname]
            /\ UNCHANGED <<semname, sobj>>
       ELSE IF flags = CPSEM_CREATE
       THEN /\ semret' = NewSem
            /\ semname' = NewSem
            /\ sobj' = [sobj EXCEPT ![NewSem] = sem_created(v)]
            /\ sh' = [sh EXCEPT ![p] = NewSem]
       ELSE /\ semret' = CPSEM_NULL
            /\ UNCHANGED <<semname, sobj, sh>>
    /\ semlast' = [SemCall("cpsem_open", p, semret')
                      EXCEPT !.create = fits /\ flags = CPSEM_CREATE, !.v = v,
                             !.gone = semlast.gone]
    /\ UNCHANGED <<os, spc>>

\* cpsem_close(sem)
cpsem_close(p) ==
    /\ sh[p] # CPSEM_NULL
    /\ spc[p] = "idle"
    /\ sh' = [sh EXCEPT ![p] = CPSEM_NULL]
    /\ sobj' = Reclaim(sobj, semname, sh')
    /\ semname' = ReclaimName(sobj, semname, sh')
    /\ semlast' = [SemCall("cpsem_close", p, sh[p])
                      EXCEPT !.gone = LastValue(sobj, semname, sh')]
    /\ UNCHANGED <<os, spc, semret>>

\* cpsem_unlink(name): sem_unlink on POSIX, nothing on Windows.
cpsem_unlink(p) ==
    /\ spc[p] = "idle"
    /\ semlast' = [SemCall("cpsem_unlink", p, semname)
                      EXCEPT !.gone = IF os = "unix"
                                      THEN LastValue(sobj, 0, sh) ELSE -1]
    /\ IF os = "unix"
       THEN /\ semret' = IF semname # 0 THEN 0 ELSE -1
            /\ semname' = 0
            /\ sobj' = Reclaim(sobj, 0, sh)
       ELSE /\ semret' = 0
            /\ UNCHANGED <<semname, sobj>>
    /\ UNCHANGED <<os, sh, spc>>

\* cpsem_wait(sem) is called: it returns at once with the counter above 0,
\* else the caller waits inside it.
cpsem_wait_call(p) ==
    /\ sh[p] # CPSEM_NULL
    /\ spc[p] = "idle"
    /\ IF sem_can_wait(sobj[sh[p]])
       THEN /\ sobj' = [sobj EXCEPT ![sh[p]] = WaitDone(@)]
            /\ semret' = 0
            /\ semlast' = SemCall("cpsem_wait", p, sh[p])
            /\ UNCHANGED spc
       ELSE /\ spc' = [spc EXCEPT ![p] = "waiting"]
            /\ semlast' = SemCall("cpsem_wait_block", p, sh[p])
            /\ UNCHANGED <<sobj, semret>>
    /\ UNCHANGED <<os, semname, sh>>

\* The waiting cpsem_wait returns.
cpsem_wait_return(p) ==
    /\ spc[p] = "waiting"
    /\ sem_can_wait(sobj[sh[p]])
    /\ sobj' = [sobj EXCEPT ![sh[p]] = WaitDone(@)]
    /\ spc' = [spc EXCEPT ![p] = "idle"]
    /\ semret' = 0
    /\ semlast' = [SemCall("cpsem_wait", p, sh[p]) EXCEPT !.blocked = TRUE]
    /\ UNCHANGED <<os, semname, sh>>

\* cpsem_post(sem)
cpsem_post(p) ==
    /\ sh[p] # CPSEM_NULL
    /\ spc[p] = "idle"
    /\ sobj[sh[p]].val < MaxCount
    /\ sobj' = [sobj EXCEPT ![sh[p]] = PostDone(@)]
    /\ semret' = 0
    /\ semlast' = SemCall("cpsem_post", p, sh[p])
    /\ UNCHANGED <<os, semname, sh, spc>>

InitSem ==
    /\ semname = 0
    /\ sobj = [o \in Sems |-> NoSem]
    /\ sh = [p \in Procs |-> CPSEM_NULL]
    /\ spc = [p \in Procs |-> "idle"]
    /\ smain = [p \in Procs |-> "start"]
    /\ semlast = SemCall("none", 0, 0)
    /\ semret = 0

\* value is looked at only when the call makes the semaphore; processes
\* with no handle are interchangeable, and the first of them makes the call
SemOpen ==
    /\ \E p \in Procs, flags \in SemFlags, v \in 0..MaxInit, fits \in BOOLEAN :
         /\ (~fits \/ flags # CPSEM_CREATE \/ semname # 0) => v = 0
         /\ ~fits => flags = 0
         /\ \A q \in 1..(p - 1) : sh[q] # CPSEM_NULL
         /\ cpsem_open(p, flags, v, fits)
    /\ UNCHANGED <<smain, notSemVars>>
SemClose == (\E p \in Procs : cpsem_close(p)) /\ UNCHANGED <<smain, notSemVars>>
\* who calls cpsem_unlink makes no difference: the first process able to
SemUnlink ==
    /\ \E p \in Procs : /\ \A q \in 1..(p - 1) : spc[q] # "idle"
                        /\ cpsem_unlink(p)
    /\ UNCHANGED <<smain, notSemVars>>
SemWaitCall ==
    (\E p \in Procs : cpsem_wait_call(p)) /\ UNCHANGED <<smain, notSemVars>>
SemWaitReturn ==
    (\E p \in Procs : cpsem_wait_return(p)) /\ UNCHANGED <<smain, notSemVars>>
SemPost == (\E p \in Procs : cpsem_post(p)) /\ UNCHANGED <<smain, notSemVars>>

\* Processes calling the semaphore functions in any order their handles
\* allow.
NextSem ==
    \/ SemOpen
    \/ SemClose
    \/ SemUnlink
    \/ SemWaitCall
    \/ SemWaitReturn
    \/ SemPost

----
\* main of semaphore.c, one instance per process, run once.

\* main with the argument "unlink": assert(0 == cpsem_unlink(name))
sem_main_unlink(p) ==
    /\ smain[p] = "start"
    /\ cpsem_unlink(p)
    /\ smain' = [smain EXCEPT ![p] = IF semret' = 0 THEN "done" ELSE "abort"]

\* s = cpsem_open(name, CPSEM_CREATE, 1); assert(s != CPSEM_NULL)
sem_main_open(p) ==
    /\ smain[p] = "start"
    /\ cpsem_open(p, CPSEM_CREATE, 1, TRUE)
    /\ smain' = [smain EXCEPT ![p] = IF semret' # CPSEM_NULL THEN "opened"
                                     ELSE "abort"]

\* assert(0 == cpsem_wait(s)); puts("Entered semaphore-protected region...")
sem_main_wait(p) ==
    /\ smain[p] = "opened"
    /\ cpsem_wait_call(p)
    /\ smain' = [smain EXCEPT ![p] = IF spc'[p] = "waiting" THEN "opened"
                                     ELSE "region"]

sem_main_wait_return(p) ==
    /\ smain[p] = "opened"
    /\ cpsem_wait_return(p)
    /\ smain' = [smain EXCEPT ![p] = "region"]

\* stdin_read(buf, sizeof(buf)): the user presses Enter
sem_main_read(p) ==
    /\ smain[p] = "region"
    /\ smain' = [smain EXCEPT ![p] = "leaving"]
    /\ semlast' = SemCall("stdin_read", p, sh[p])
    /\ UNCHANGED <<os, semname, sobj, sh, spc, semret>>

\* assert(0 == cpsem_post(s))
sem_main_post(p) ==
    /\ smain[p] = "leaving"
    /\ cpsem_post(p)
    /\ smain' = [smain EXCEPT ![p] = "posted"]

\* cpsem_close(s)
sem_main_close(p) ==
    /\ smain[p] = "posted"
    /\ cpsem_close(p)
    /\ smain' = [smain EXCEPT ![p] = "done"]

SemMainUnlink == (\E p \in Procs : sem_main_unlink(p)) /\ UNCHANGED notSemVars
SemMainOpen == (\E p \in Procs : sem_main_open(p)) /\ UNCHANGED notSemVars
SemMainWait == (\E p \in Procs : sem_main_wait(p)) /\ UNCHANGED notSemVars
SemMainWaitReturn ==
    (\E p \in Procs : sem_main_wait_return(p)) /\ UNCHANGED notSemVars
SemMainRead == (\E p \in Procs : sem_main_read(p)) /\ UNCHANGED notSemVars
SemMainPost == (\E p \in Procs : sem_main_post(p)) /\ UNCHANGED notSemVars
SemMainClose == (\E p \in Procs : sem_main_close(p)) /\ UNCHANGED notSemVars

NextSemMain ==
    \/ SemMainUnlink
    \/ SemMainOpen
    \/ SemMainWait
    \/ SemMainWaitReturn
    \/ SemMainRead
    \/ SemMainPost
    \/ SemMainClose

\* An instance has ended and the sample is started once more in its place.
sem_main_start(p) ==
    /\ smain[p] = "done"
    /\ sh[p] = CPSEM_NULL
    /\ smain' = [smain EXCEPT ![p] = "start"]
    /\ semlast' = SemCall("main", p, CPSEM_NULL)
    /\ UNCHANGED <<os, semname, sobj, sh, spc, semret>>

SemMainStart == (\E p \in Procs : sem_main_start(p)) /\ UNCHANGED notSemVars

\* Any number of runs of the sample, MaxProcs of them at a time.
NextSemRuns ==
    \/ NextSemMain
    \/ SemMainStart

\* what instance p does next
SemMainStep(p) ==
    /\ \/ sem_main_open(p)
       \/ sem_main_wait(p)
       \/ sem_main_wait_return(p)
       \/ sem_main_read(p)
       \/ sem_main_post(p)
       \/ sem_main_close(p)
    /\ UNCHANGED notSemVars

(***************************************************************************)
(* CPU exceptions: samples/signal-cpu-exception.c                          *)
(***************************************************************************)

\* Signal numbers, and the exception codes as the int with the same 32 bits.
SIGILL == 4
SIGFPE == 8
CPSIG_STACK_UNIX == 1073741835              \* 0x40000000 | SIGSEGV
EXCEPTION_ACCESS_VIOLATION == -1073741819   \* 0xC0000005
EXCEPTION_ILLEGAL_INSTRUCTION == -1073741795
EXCEPTION_STACK_OVERFLOW == -1073741571
EXCEPTION_FLT_DIVIDE_BY_ZERO == -1073741682
EXCEPTION_INT_DIVIDE_BY_ZERO == -1073741676

\* enum CPSIG
CPSIG_SEGV == IF os = "unix" THEN SIGSEGV ELSE EXCEPTION_ACCESS_VIOLATION
CPSIG_FPE == IF os = "unix" THEN SIGFPE ELSE EXCEPTION_FLT_DIVIDE_BY_ZERO
CPSIG_ILL == IF os = "unix" THEN SIGILL ELSE EXCEPTION_ILLEGAL_INSTRUCTION
CPSIG_STACK == IF os = "unix" THEN CPSIG_STACK_UNIX
               ELSE EXCEPTION_STACK_OVERFLOW
CPSIGs == {CPSIG_SEGV, CPSIG_STACK, CPSIG_ILL, CPSIG_FPE}

ExcSignals == {SIGSEGV, SIGFPE, SIGILL}
Handlers == 1..MaxHandlers

\* the address sig_raise writes to
FAULT_ADDR == 22

NoExc == [code |-> 0, addr |-> 0, stack |-> FALSE]
SigCall(op) == [op |-> op, sigs |-> <<>>, h |-> 0, exc |-> NoExc]

\* The first loop of sig_subscribe: at the first CPSIG_STACK it sets the
\* alternate stack and the SIGSEGV handler that runs on it.
\* [r, act, alt, have]: the value to return if not 0, the handlers, whether an
\* alternate stack is set, have_stack_sig.
first_loop(act, alt, sigs, mallocok, altok) ==
    IF \E i \in 1..Len(sigs) : sigs[i] = CPSIG_STACK
    THEN IF ~mallocok \/ ~altok
         THEN [r |-> -1, act |-> act, alt |-> alt, have |-> FALSE]
         ELSE [r |-> 0, act |-> [act EXCEPT ![SIGSEGV] = "onstack"],
               alt |-> TRUE, have |-> TRUE]
    ELSE [r |-> 0, act |-> act, alt |-> alt, have |-> FALSE]

\* The second loop: sigaction with SA_SIGINFO | SA_RESETHAND for the other
\* signals of the array, from index i on.
RECURSIVE second_loop_noskip(_, _, _, _)
second_loop_noskip(act, sigs, i, have) ==
    IF i > Len(sigs) THEN act
    ELSE IF sigs[i] = CPSIG_STACK
    THEN second_loop_noskip(act, sigs, i + 1, have)
    ELSE second_loop_noskip([act EXCEPT ![sigs[i]] = "plain"], sigs, i + 1,
                            have)

RECURSIVE second_loop(_, _, _, _)
second_loop(act, sigs, i, have) ==
    IF i > Len(sigs) THEN act
    ELSE IF sigs[i] = CPSIG_STACK \/ (sigs[i] = SIGSEGV /\ have)
    THEN second_loop(act, sigs, i + 1, have)
    ELSE second_loop([act EXCEPT ![sigs[i]] = "plain"], sigs, i + 1, have)

\* _sig_userhandler after sig_subscribe(handler, ...) that returns r
userhandler_if_ok(handler, r) == IF r = 0 THEN handler ELSE sigusr

userhandler_set(handler, r) == handler

\* sig_subscribe(handler, sigs, sigs_n)
sig_subscribe(handler, sigs, mallocok, altok) ==
    /\ sigps = "running"
    /\ sigprog \in {"none", "exception"}
    /\ sigprog' = "exception"
    /\ siglast' = [SigCall("sig_subscribe") EXCEPT !.sigs = sigs, !.h = handler]
    /\ sublast' = handler
    /\ IF os = "unix"
       THEN LET f == first_loop(sigact, sigalt, sigs, mallocok, altok)
            IN  /\ sigret' = f.r
                /\ sigalt' = f.alt
                /\ sigact' = IF f.r # 0 THEN f.act
                             ELSE second_loop(f.act, sigs, 1, f.have)
                /\ UNCHANGED sigfilter
       ELSE /\ sigret' = 0
            /\ sigfilter' = TRUE
            /\ UNCHANGED <<sigact, sigalt>>
    /\ sigusr' = userhandler_set(handler, sigret')
    /\ UNCHANGED <<os, sigps, sigpend, siglog, intVars>>

\* The signal the kernel sends for an exception (POSIX).
SigOf(e) ==
    IF e.code \in {CPSIG_SEGV, CPSIG_STACK} THEN SIGSEGV
    ELSE IF e.code = CPSIG_FPE THEN SIGFPE
    ELSE SIGILL

\* _sig_exc_handler filling struct sig_info and calling the user's handler
sig_info_unix(e) ==
    [h |-> sigusr, sig |-> SigOf(e), addr |-> e.addr,
     onalt |-> sigact[SigOf(e)] = "onstack"]

sig_info_win(e) ==
    [h |-> sigusr, sig |-> e.code,
     addr |-> IF e.code = EXCEPTION_ACCESS_VIOLATION THEN e.addr ELSE 0,
     onalt |-> FALSE]

\* SA_RESETHAND: the action of signo when its handler is entered
resethand_never(act, signo) == act

resethand(act, signo) == [act EXCEPT ![signo] = "dfl"]

\* The exception e reaches the process.  POSIX: the signal's handler is
\* called, on the alternate stack if it asks for one; it cannot be called on
\* a stack that is used up; SA_RESETHAND makes the signal's action the
\* default one; when the handler returns the instruction runs again.
\* Windows: the filter removes itself, calls the handler and lets the
\* search go on, which ends the process.
deliver(e) ==
    IF os = "unix"
    THEN IF sigact[SigOf(e)] = "dfl"
            \/ (e.stack /\ sigact[SigOf(e)] = "plain")
         THEN /\ sigps' = "dead"
              /\ UNCHANGED <<sigact, sigfilter, siglog>>
         ELSE /\ siglog' = Append(siglog, sig_info_unix(e))
              /\ sigact' = resethand(sigact, SigOf(e))
              /\ sigps' = "retry"
              /\ UNCHANGED sigfilter
    ELSE IF ~sigfilter
         THEN /\ sigps' = "dead"
              /\ UNCHANGED <<sigact, sigfilter, siglog>>
         ELSE /\ sigfilter' = FALSE
              /\ siglog' = Append(siglog, sig_info_win(e))
              /\ sigps' = "dead"
              /\ UNCHANGED sigact

\* What sig_raise(sig) does to the processor.
raised(sig) ==
    IF sig = CPSIG_STACK
    THEN [code |-> CPSIG_STACK, addr |-> 0, stack |-> TRUE]
    ELSE IF sig = CPSIG_SEGV
    THEN [code |-> CPSIG_SEGV, addr |-> FAULT_ADDR, stack |-> FALSE]
    ELSE IF sig = CPSIG_FPE
    THEN [code |-> IF os = "unix" THEN CPSIG_FPE
                   ELSE EXCEPTION_INT_DIVIDE_BY_ZERO,
          addr |-> 0, stack |-> FALSE]
    ELSE NoExc

\* sig_raise(sig); CPSIG_ILL has no case and nothing happens
sig_raise(sig) ==
    /\ sigps = "running"
    /\ sigprog \in {"none", "exception"}
    /\ sigprog' = "exception"
    /\ siglast' = [SigCall("sig_raise") EXCEPT !.exc = raised(sig)]
    /\ IF raised(sig) = NoExc
       THEN UNCHANGED <<sigact, sigfilter, sigps, sigpend, siglog>>
       ELSE /\ sigpend' = raised(sig)
            /\ deliver(raised(sig))
    /\ UNCHANGED <<os, sigusr, sigalt, sublast, sigret, intVars>>

\* The handler has returned and the instruction faults again.
sig_retry ==
    /\ sigps = "retry"
    /\ siglast' = [SigCall("retry") EXCEPT !.exc = sigpend]
    /\ deliver(sigpend)
    /\ UNCHANGED <<os, sigusr, sigalt, sigpend, sublast, sigret, sigprog,
                   intVars>>

InitSig ==
    /\ sigusr = 0
    /\ sigact = [x \in ExcSignals |-> "dfl"]
    /\ sigfilter = FALSE
    /\ sigalt = FALSE
    /\ sigps = "running"
    /\ sigpend = NoExc
    /\ siglog = <<>>
    /\ sublast = 0
    /\ siglast = SigCall("none")
    /\ sigret = 0
    /\ sigprog = "none"
    /\ intusr = 0
    /\ intreg = FALSE
    /\ intps = "running"
    /\ intlog = <<>>
    /\ intsub = 0

\* The calls of sig_subscribe: malloc and sigaltstack are called only for
\* CPSIG_STACK on POSIX, sigaltstack only after malloc succeeded.
SubscribeCalls ==
    {c \in [handler : Handlers, sigs : SeqsUpTo(CPSIGs, MaxKinds),
            mallocok : BOOLEAN, altok : BOOLEAN] :
        /\ (os = "unix" /\ \E i \in 1..Len(c.sigs) : c.sigs[i] = CPSIG_STACK)
              \/ (c.mallocok /\ c.altok)
        /\ c.mallocok \/ c.altok}

SigSubscribe ==
    /\ \E c \in SubscribeCalls :
         sig_subscribe(c.handler, c.sigs, c.mallocok, c.altok)
    /\ UNCHANGED notSigVars
SigRaise == (\E sig \in CPSIGs : sig_raise(sig)) /\ UNCHANGED notSigVars
SigRetry == sig_retry /\ UNCHANGED notSigVars

NextSigExc ==
    \/ SigSubscribe
    \/ SigRaise
    \/ SigRetry

(***************************************************************************)
(* Ctrl+C: samples/signal-interrupt.c                                      *)
(***************************************************************************)

CTRL_C_EVENT == 0
CTRL_BREAK_EVENT == 1
CtrlEvents == IF os = "unix" THEN {CTRL_C_EVENT}
              ELSE {CTRL_C_EVENT, CTRL_BREAK_EVENT}

\* sig_userhandler after sig_int_subscribe(handler)
int_userhandler_first(handler) == IF intusr = 0 THEN handler ELSE intusr

int_userhandler_set(handler) == handler

\* sig_int_subscribe(handler): sigaction(SIGINT) with sig_handler;
\* SetConsoleCtrlHandler(sig_ctrl_handler, 1), which adds the routine once
\* more; the routine called first ends the chain for Ctrl+C.
sig_int_subscribe(handler) ==
    /\ intps = "running"
    /\ sigprog \in {"none", "interrupt"}
    /\ sigprog' = "interrupt"
    /\ intusr' = int_userhandler_set(handler)
    /\ intsub' = handler
    /\ intreg' = TRUE
    /\ UNCHANGED <<os, intps, intlog, excVars>>

\* sig_handler(SIGINT) and sig_ctrl_handler(ctrl): 1 when the event was
\* handled, and the calls of the user's handler after it
sig_ctrl_handler(ctrl) ==
    IF ctrl = CTRL_C_EVENT
    THEN [r |-> 1, log |-> Append(intlog, intusr)]
    ELSE [r |-> 0, log |-> intlog]

\* A console interrupt reaches the process; one that no routine handles
\* ends it.
sig_int(ctrl) ==
    /\ intps = "running"
    /\ sigprog \in {"none", "interrupt"}
    /\ sigprog' = "interrupt"
    /\ Len(intlog) < MaxInts
    /\ IF intreg /\ sig_ctrl_handler(ctrl).r = 1
       THEN /\ intlog' = sig_ctrl_handler(ctrl).log
            /\ UNCHANGED intps
       ELSE /\ intps' = "dead"
            /\ UNCHANGED intlog
    /\ UNCHANGED <<os, intusr, intreg, intsub, excVars>>

SigIntSubscribe ==
    /\ \E handler \in Handlers : sig_int_subscribe(handler)
    /\ UNCHANGED notSigVars
SigInt == (\E ctrl \in CtrlEvents : sig_int(ctrl)) /\ UNCHANGED notSigVars

(***************************************************************************)
(* main of samples/ps-exec-out.c                                           *)
(***************************************************************************)

\* main's r and w
EoR == CHOOSE f \in Fds : pfd[f] = "pipe_r"
EoW == CHOOSE f \in Fds : pfd[f] = "pipe_w"

\* The child holds a write end of the pipe: its stdout or stderr, until it
\* ends.
ChildWrites ==
    child.st = "running" /\ \E s \in Streams : cstd[s] = "pipe_w"

\* Somebody holds a write end: the child, or main through w.
WriterLeft == ChildWrites \/ \E f \in Fds : pfd[f] = "pipe_w"

\* assert(0 == pipe_create(&r, &w))
eo_main_create(ok) ==
    /\ eom = "start"
    /\ eo_pipe_create(ok)
    /\ eom' = IF ok THEN "created" ELSE "abort"
    /\ UNCHANGED <<eobuf, eosent, eon>>

\* info = {args, .in = PIPE_NULL, .out = w, .err = w};
\* p = ps_exec_info(path, &info); assert(p != _PS_NULL)
eo_main_exec(path, refuse) ==
    /\ eom = "created"
    /\ ps_exec_info(path, refuse, TRUE,
                    [in |-> PIPE_NULL, out |-> EoW, err |-> EoW])
    /\ eom' = IF psret' = _PS_NULL THEN "abort" ELSE "spawned"
    /\ UNCHANGED <<eobuf, eosent, eon>>

\* The child writes k bytes to its stdout or stderr.
eo_child_write(k) ==
    /\ ChildWrites
    /\ eobuf + k <= PipeCap
    /\ eosent + k <= MaxData
    /\ eobuf' = eobuf + k
    /\ eosent' = eosent + k
    /\ UNCHANGED <<os, psVars, eoVars, eom, eon>>

\* n = pipe_read(r, buf, sizeof(buf)); assert(n >= 0).  The call returns
\* when the pipe has bytes, or when nobody holds a write end.
eo_main_read ==
    /\ eom = "spawned"
    /\ eobuf > 0 \/ ~WriterLeft
    /\ \E n \in 0..eobuf :
         /\ eobuf > 0 => n >= 1
         /\ eon' = IF os = "unix" THEN pipe_read_unix(TRUE, n)
                   ELSE pipe_read_win(ReadFile(TRUE, n, eobuf = 0))
         /\ eobuf' = eobuf - n
    /\ eom' = IF eon' >= 0 THEN "read" ELSE "abort"
    /\ UNCHANGED <<os, psVars, eoVars, eosent>>

\* stdout_write(buf, n); ps_close(p); pipe_close(r); pipe_close(w)
eo_main_finish ==
    /\ eom = "read"
    /\ ps_close
    /\ pfd' = [pfd EXCEPT ![EoR] = "closed", ![EoW] = "closed"]
    /\ eom' = "done"
    /\ UNCHANGED <<ei, cstd, inherit, eobuf, eosent, eon>>

InitEoMain ==
    /\ eom = "start"
    /\ eobuf = 0
    /\ eosent = 0
    /\ eon = 0

EoMainCreate ==
    (\E ok \in BOOLEAN : eo_main_create(ok)) /\ UNCHANGED notEoMainVars
EoMainExec ==
    /\ \E path \in {"ok", "missing"}, refuse \in BOOLEAN :
         eo_main_exec(path, refuse)
    /\ UNCHANGED notEoMainVars
EoChildWrite ==
    (\E k \in 1..PipeCap : eo_child_write(k)) /\ UNCHANGED notEoMainVars
EoChildExit ==
    /\ \E c \in ExitCodes : child_exit(c)
    /\ UNCHANGED <<eoVars, eomVars, notEoMainVars>>
EoMainRead == eo_main_read /\ UNCHANGED notEoMainVars
EoMainFinish == eo_main_finish /\ UNCHANGED notEoMainVars

EoMainStep ==
    \/ EoMainCreate
    \/ EoMainExec
    \/ EoMainRead
    \/ EoMainFinish

NextEoMain ==
    \/ EoMainStep
    \/ EoChildWrite
    \/ EoChildExit

(***************************************************************************)
(* std-echo.c                                                              *)
(***************************************************************************)

\* The input: a letter, and a character that takes two bytes of UTF-8.
EchoChars == {"a", "e'"}
REPLACEMENT == "U+FFFD"

\* WideCharToMultiByte(CP_UTF8, ...): characters as bytes
RECURSIVE Utf8(_)
Utf8(cs) ==
    IF cs = <<>> THEN <<>>
    ELSE (IF Head(cs) = "e'" THEN <<"C3", "A9">> ELSE <<Head(cs)>>)
         \o Utf8(Tail(cs))

\* MultiByteToWideChar(CP_UTF8, 0, ...): bytes as characters; a byte that
\* is not part of a whole character becomes U+FFFD
RECURSIVE Utf16(_)
Utf16(bs) ==
    IF bs = <<>> THEN <<>>
    ELSE IF Head(bs) = "C3" /\ Len(bs) >= 2 /\ bs[2] = "A9"
    THEN <<"e'">> \o Utf16(Tail(Tail(bs)))
    ELSE IF Head(bs) \in {"C3", "A9"} THEN <<REPLACEMENT>> \o Utf16(Tail(bs))
    ELSE <<Head(bs)>> \o Utf16(Tail(bs))

Kinds == {"pipe", "console"}

\* stdin_read(buf, cap) handing over the first n bytes of the input: the
\* bytes stored in buf and the return value.  POSIX: read().  Windows, stdin
\* a console: ReadConsoleW reads the characters, which are converted to
\* UTF-8; the conversion fails with 0 when they do not fit buf.  Otherwise
\* ReadFile.  fail: the system call fails.
stdin_read(n, fail) ==
    IF fail THEN [r |-> -1, bytes |-> <<>>]
    ELSE IF os = "win" /\ ekind.in = "console"
    THEN LET w == Utf16(Take(ein, n))
         IN  IF Len(Utf8(w)) > EchoCap THEN [r |-> 0, bytes |-> <<>>]
             ELSE [r |-> Len(Utf8(w)), bytes |-> Utf8(w)]
    ELSE [r |-> n, bytes |-> Take(ein, n)]

\* The byte counts a stdin_read may take from the input: up to cap bytes
\* of a pipe; a console hands over whole characters, up to 1000 of them.
ReadSizes ==
    IF os = "win" /\ ekind.in = "console"
    THEN {n \in 0..Len(ein) :
            /\ (ein # <<>> => n >= 1)
            /\ REPLACEMENT \notin {Utf16(Take(ein, n))[k] :
                                     k \in 1..Len(Utf16(Take(ein, n)))}
            /\ Utf8(Utf16(Take(ein, n))) = Take(ein, n)
            /\ Len(Utf16(Take(ein, n))) <= EchoCap}
    ELSE {n \in 0..Min(EchoCap, Len(ein)) : ein # <<>> => n >= 1}

\* stdout_write(d, r) with the system accepting n of the bytes: what
\* reaches stdout and the return value.  Windows, stdout a console: the
\* bytes are converted to UTF-16, written, and len is returned.
stdout_write(data, n, fail) ==
    IF fail THEN [w |-> -1, out |-> <<>>]
    ELSE IF os = "win" /\ ekind.out = "console"
    THEN [w |-> Len(data), out |-> Utf16(data)]
    ELSE [w |-> n, out |-> Take(data, n)]

\* std-echo is started with its input and its streams.
echo_start(kind, input) ==
    /\ epos = "init"
    /\ os = "unix" => kind = [in |-> "pipe", out |-> "pipe"]
    /\ ekind' = kind
    /\ ein' = Utf8(input)
    /\ epos' = "read"
    /\ UNCHANGED <<os, eread, echunk, eout, er>>

\* r = stdin_read(buf, sizeof(buf)); if (r <= 0) return;
echo_read(n, fail) ==
    /\ epos = "read"
    /\ LET c == stdin_read(n, fail)
       IN  /\ er' = c.r
           /\ ein' = Drop(ein, n)
           /\ eread' = eread \o c.bytes
           /\ echunk' = c.bytes
           /\ epos' = IF c.r <= 0 THEN "done" ELSE "write"
    /\ UNCHANGED <<os, ekind, eout>>

\* while (r != 0) { w = stdout_write(d, r); assert(w >= 0); d += w; r -= w; }
echo_write(n, fail) ==
    /\ epos = "write"
    /\ LET c == stdout_write(echunk, n, fail)
       IN  IF c.w < 0
           THEN /\ epos' = "abort"
                /\ UNCHANGED <<echunk, eout>>
           ELSE /\ eout' = eout \o c.out
                /\ echunk' = Drop(echunk, c.w)
                /\ epos' = IF Drop(echunk, c.w) = <<>> THEN "read"
                           ELSE "write"
    /\ UNCHANGED <<os, ekind, ein, eread, er>>

InitEcho ==
    /\ ekind = [in |-> "pipe", out |-> "pipe"]
    /\ ein = <<>>
    /\ eread = <<>>
    /\ echunk = <<>>
    /\ eout = <<>>
    /\ epos = "init"
    /\ er = 0

notEchoVars == <<pipeVars, psVars, eoVars, npVars, semVars, sigVars, imVars,
                 clVars, eomVars, npeVars>>

EchoStart ==
    /\ \E kind \in [in : Kinds, out : Kinds],
          input \in SeqsFrom0(EchoChars, MaxEcho) : echo_start(kind, input)
    /\ UNCHANGED notEchoVars
EchoRead ==
    /\ \E c \in {x \in [n : ReadSizes, fail : BOOLEAN] : x.fail => x.n = 0} :
         echo_read(c.n, c.fail)
    /\ UNCHANGED notEchoVars
EchoWrite ==
    /\ \E c \in {x \in [n : 1..Len(echunk), fail : BOOLEAN] :
                   x.fail => x.n = 1} : echo_write(c.n, c.fail)
    /\ UNCHANGED notEchoVars

NextEcho ==
    \/ EchoStart
    \/ EchoRead
    \/ EchoWrite

(***************************************************************************)
(* The descriptors of pipe_create_named and pipe_connect, POSIX:           *)
(* samples-sys/pipe-named.c                                                *)
(***************************************************************************)

\* sizeof(a.sun_path)
SUN_PATH_SIZE == 108
NameLens == (SUN_PATH_SIZE - NameSlack)..(SUN_PATH_SIZE + NameSlack)

\* descriptors socket() can return
SockFds == (STDERR_FILENO + 1)..(STDERR_FILENO + MaxSocks)

\* socket(): the lowest free descriptor, or -1
socket(fds) ==
    IF SockFds \ fds = {} THEN -1
    ELSE CHOOSE f \in SockFds \ fds : \A g \in SockFds \ fds : f <= g

\* close(p) in the descriptor table
close_leak(fds, p) == fds

close(fds, p) == fds \ {p}

NoNpCall ==
    [op |-> "none", len |-> 0, r |-> 0, errno |-> "none", sock |-> -1,
     before |-> {}]

\* pipe_create_named(name) with strlen(name) = len; sockok, bindok,
\* listenok: the system calls succeed.  [r, errno, fds, sock]: the return
\* value, errno, the descriptor table after the call, the socket it made.
pipe_create_named_fds(fds, len, sockok, bindok, listenok) ==
    IF len + 1 > SUN_PATH_SIZE
    THEN [r |-> -1, errno |-> "EINVAL", fds |-> fds, sock |-> -1]
    ELSE LET p == IF sockok THEN socket(fds) ELSE -1
         IN  IF p = -1
             THEN [r |-> -1, errno |-> "EMFILE", fds |-> fds, sock |-> -1]
             ELSE IF ~bindok
             THEN [r |-> -1, errno |-> "EADDRINUSE",
                   fds |-> close(fds \cup {p}, p), sock |-> p]
             ELSE IF ~listenok
             THEN [r |-> -1, errno |-> "EADDRINUSE",
                   fds |-> close(fds \cup {p}, p), sock |-> p]
             ELSE [r |-> p, errno |-> "none", fds |-> fds \cup {p},
                   sock |-> p]

\* pipe_connect(name)
pipe_connect_fds(fds, len, sockok, connectok) ==
    IF len + 1 > SUN_PATH_SIZE
    THEN [r |-> -1, errno |-> "EINVAL", fds |-> fds, sock |-> -1]
    ELSE LET p == IF sockok THEN socket(fds) ELSE -1
         IN  IF p = -1
             THEN [r |-> -1, errno |-> "EMFILE", fds |-> fds, sock |-> -1]
             ELSE IF ~connectok
             THEN [r |-> -1, errno |-> "ECONNREFUSED",
                   fds |-> close(fds \cup {p}, p), sock |-> p]
             ELSE [r |-> p, errno |-> "none", fds |-> fds \cup {p},
                   sock |-> p]

np_call(op, len, c) ==
    /\ os = "unix"
    /\ npfds' = c.fds
    /\ npcall' = [op |-> op, len |-> len, r |-> c.r, errno |-> c.errno,
                  sock |-> c.sock, before |-> npfds]
    /\ UNCHANGED <<os, imVars, clVars, eomVars, echoVars>>

\* pipe_close(p) on a descriptor one of the calls returned
np_fd_close(p) ==
    /\ os = "unix"
    /\ p \in npfds
    /\ npfds' = close(npfds, p)
    /\ npcall' = [NoNpCall EXCEPT !.op = "pipe_close", !.before = npfds]
    /\ UNCHANGED <<os, imVars, clVars, eomVars, echoVars>>

InitNpe ==
    /\ npfds = {}
    /\ npcall = NoNpCall

\* The outcomes of the system calls of one call: a call that fails ends the
\* function, so the later ones are not made.
NpeOutcomes ==
    {o \in [sockok : BOOLEAN, bindok : BOOLEAN, listenok : BOOLEAN] :
        /\ ~o.sockok => o.bindok
        /\ ~o.bindok => o.listenok}

NpeCreateNamed ==
    /\ \E len \in NameLens, o \in NpeOutcomes :
         np_call("pipe_create_named", len,
                 pipe_create_named_fds(npfds, len, o.sockok, o.bindok,
                                       o.listenok))
    /\ UNCHANGED notDrvVars /\ UNCHANGED sigVars
NpeConnect ==
    /\ \E len \in NameLens, o \in {x \in NpeOutcomes : x.listenok} :
         np_call("pipe_connect", len,
                 pipe_connect_fds(npfds, len, o.sockok, o.bindok))
    /\ UNCHANGED notDrvVars /\ UNCHANGED sigVars
NpeClose ==
    /\ \E p \in SockFds : np_fd_close(p)
    /\ UNCHANGED notDrvVars /\ UNCHANGED sigVars

NextNpe ==
    \/ NpeCreateNamed
    \/ NpeConnect
    \/ NpeClose

(***************************************************************************)
(* The command line ps_exec builds for CreateProcessW: ps-exec.c,          *)
(* samples/ps-exec-wait.c, samples/ps-exec-out.c (Windows)                 *)
(***************************************************************************)

\* Characters of an argument: a letter, a space, and a character outside the
\* basic plane, which is one character of UTF-8 text and two of UTF-16.
ArgChars == {"a", " ", "U+1F600"}
NUL == "NUL"
WChars == {"a", " ", "hi", "lo"}

Args == SeqsFrom0(ArgChars, MaxArgLen)
Argvs == SeqsFrom0(Args, MaxArgs)

\* UTF-8 text as UTF-16
RECURSIVE Wide(_)
Wide(a) ==
    IF a = <<>> THEN <<>>
    ELSE (IF Head(a) = "U+1F600" THEN <<"hi", "lo">> ELSE <<Head(a)>>)
         \o Wide(Tail(a))

\* MultiByteToWideChar(CP_UTF8, 0, src, -1, dst, cch): the elements stored,
\* the terminator included, and the return value.  cch = 0 asks for the
\* size: nothing is stored and the size is returned.  A negative cch or a
\* buffer too small fails with 0.
MultiByteToWideChar(src, cch) ==
    IF cch < 0 THEN [r |-> 0, stored |-> <<>>]
    ELSE IF cch = 0 THEN [r |-> Len(Wide(src)) + 1, stored |-> <<>>]
    ELSE IF Len(Wide(src)) + 1 > cch THEN [r |-> 0, stored |-> <<>>]
    ELSE [r |-> Len(Wide(src)) + 1, stored |-> Wide(src) \o <<NUL>>]

\* wargs with elems stored from index n (0-based); what falls outside the
\* buffer is not kept
Stored(wargs, n, elems) ==
    [k \in 1..WargsCap |->
        IF k - 1 >= n /\ k - 1 < n + Len(elems) THEN elems[k - n]
        ELSE wargs[k]]

\* The loop of ps_exec from argument i (1-based) on.  st: the buffer, n,
\* and what happened so far: a store at an index outside the buffer (oob),
\* a remaining capacity of 0 passed (zero) or a negative one, the wrapped
\* 1000 - n (wrap).
RECURSIVE args_loop(_, _, _)
args_loop(argv, i, st) ==
    IF i > Len(argv) THEN [st EXCEPT !.ret = "create"]
    ELSE LET sep == IF i # 1
                    THEN [st EXCEPT !.wargs = Stored(st.wargs, st.n, <<" ">>),
                                    !.oob = st.oob \/ st.n >= WargsCap,
                                    !.n = st.n + 1]
                    ELSE st
             cch == WargsCap - sep.n
             m == MultiByteToWideChar(argv[i], cch)
         IN  IF m.r = 0
             THEN [sep EXCEPT !.ret = "null", !.wrap = sep.wrap \/ cch < 0]
             ELSE args_loop(argv, i + 1,
                    [sep EXCEPT !.wargs = Stored(sep.wargs, sep.n, m.stored),
                                !.zero = sep.zero \/ cch = 0,
                                !.n = sep.n + m.r - 1])

\* wchar_t wargs[1000]; size_t n = 0;  garbage: what the stack held
Unset(garbage) ==
    [ret |-> "none", wargs |-> [k \in 1..WargsCap |-> garbage], n |-> 0,
     oob |-> FALSE, zero |-> FALSE, wrap |-> FALSE]

\* The string CreateProcessW reads from wargs: the elements before the first
\* NUL, and whether that NUL lies inside the buffer.
CommandLine(wargs) ==
    IF \E k \in 1..WargsCap : wargs[k] = NUL
    THEN LET z == CHOOSE k \in 1..WargsCap :
                    wargs[k] = NUL /\ \A j \in 1..(k - 1) : wargs[j] # NUL
         IN  [text |-> SubSeq(wargs, 1, z - 1), inside |-> TRUE]
    ELSE [text |-> wargs, inside |-> FALSE]

\* ps_exec(filename, argv), the part that builds wargs; every call starts
\* from a buffer of its own, and one call is followed
ps_exec_cmdline(argv, garbage) ==
    /\ os = "win"
    /\ clres.ret = "none"
    /\ clargv' = argv
    /\ clres' = args_loop(argv, 1, Unset(garbage))
    /\ UNCHANGED <<os, imVars, eomVars, echoVars, npeVars>>

\* argv[0], argv[1], ... with one space between two arguments
RECURSIVE Joined(_)
Joined(argv) ==
    IF argv = <<>> THEN <<>>
    ELSE IF Len(argv) = 1 THEN Wide(argv[1])
    ELSE Wide(argv[1]) \o <<" ">> \o Joined(Tail(argv))

InitCmdLine ==
    /\ clargv = <<>>
    /\ clres = Unset(NUL)

PsExecCmdline ==
    /\ \E argv \in Argvs, garbage \in WChars \cup {NUL} :
         ps_exec_cmdline(argv, garbage)
    /\ UNCHANGED notDrvVars /\ UNCHANGED sigVars

NextCmdLine == PsExecCmdline

(***************************************************************************)
(* main of samples/signal-interrupt.c                                      *)
(***************************************************************************)

\* the handler main subscribes
ctrlc_handler == 1

Builds == {"reload", "hoist"}

\* sig_int_subscribe(ctrlc_handler); int r = 0.  quit is a plain int that
\* the handler writes while the loop reads it: the build may read it at
\* every test or once.
int_main_subscribe(build) ==
    /\ imain = "start"
    /\ sig_int_subscribe(ctrlc_handler)
    /\ imain' = "loop"
    /\ ir' = 0
    /\ ibuild' = build
    /\ UNCHANGED <<quit, iquitreg, clVars, eomVars, echoVars, npeVars>>

\* the value of quit a test of the loop sees
quit_seen ==
    IF ibuild = "reload" \/ iquitreg = -1 THEN quit ELSE iquitreg

\* while (!quit) r++;  then printf
int_main_loop ==
    /\ imain = "loop"
    /\ intps = "running"
    /\ iquitreg' = IF ibuild = "hoist" THEN quit_seen ELSE iquitreg
    /\ IF quit_seen = 0
       THEN /\ ir' = Min(ir + 1, MaxR)
            /\ UNCHANGED imain
       ELSE /\ imain' = "done"
            /\ UNCHANGED ir
    /\ UNCHANGED <<os, quit, ibuild, sigVars, clVars, eomVars, echoVars,
                   npeVars>>

\* A console interrupt while main runs: ctrlc_handler sets quit.
int_main_interrupt(ctrl) ==
    /\ imain \in {"start", "loop"}
    /\ sig_int(ctrl)
    /\ quit' = IF intlog' # intlog THEN 1 ELSE quit
    /\ UNCHANGED <<imain, ir, ibuild, iquitreg, clVars, eomVars, echoVars,
                   npeVars>>

InitIntMain ==
    /\ quit = 0
    /\ imain = "start"
    /\ ir = 0
    /\ ibuild = "reload"
    /\ iquitreg = -1

IntMainSubscribe ==
    /\ \E build \in Builds : int_main_subscribe(build)
    /\ UNCHANGED notDrvVars
IntMainLoop == int_main_loop /\ UNCHANGED notDrvVars
IntMainInterrupt ==
    /\ \E ctrl \in CtrlEvents : int_main_interrupt(ctrl)
    /\ UNCHANGED notDrvVars

NextIntMain ==
    \/ IntMainSubscribe
    \/ IntMainLoop
    \/ IntMainInterrupt

NextSig ==
    \/ NextSigExc
    \/ SigIntSubscribe
    \/ SigInt

\* The same server and clients with no data sent: the calls that make,
\* accept, release and close connections and the listening pipe.
NextListener ==
    \/ NpUnlink
    \/ NpCreateNamed
    \/ NpAcceptCall
    \/ NpAcceptReturn
    \/ NpConnect
    \/ NpClientClose
    \/ NpPeerClose
    \/ NpClose

Init ==
    /\ os \in OSes
    /\ InitPipe
    /\ InitPs
    /\ InitEo
    /\ InitNp
    /\ InitSem
    /\ InitSig
    /\ InitIntMain
    /\ InitCmdLine
    /\ InitEoMain
    /\ InitEcho
    /\ InitNpe

NextPipe ==
    \/ \E ok \in BOOLEAN : pipe_create(ok)
    \/ \E data \in SeqsUpTo(Byte, MaxData) : pipe_write(data)
    \/ pipe_close_w
    \/ pipe_close_r
    \/ \E cap \in 1..MaxData : pipe_read(cap)

SpecPipe == Init /\ [][NextPipe]_vars

SpecPs == Init /\ [][NextPs]_vars

\* C1: once the write end is closed, the reads on the open read end return
\* the written bytes in order (what was read so far plus what is still
\* buffered is exactly what was written), never a negative value, and after
\* the first 0 every read returns 0, by which time every written byte has
\* been delivered.
C1_ReadsThenEof ==
    /\ rdopen => got \o pbuf = written
    /\ \A i \in 1..Len(rdlog) :
         /\ rdlog[i] >= 0
         /\ rdlog[i] = 0 => /\ got = written
                            /\ \A j \in i..Len(rdlog) : rdlog[j] = 0

C1_Witness ==
    /\ os = "win"
    /\ Len(written) = MaxData
    /\ got = written
    /\ Len(rdlog) >= 4
    /\ rdlog[1] > 0 /\ rdlog[2] > 0
    /\ rdlog[Len(rdlog)] = 0 /\ rdlog[Len(rdlog) - 1] = 0

SpecExecInfo == Init /\ [][NextExecInfo]_vars

SpecNamed == Init /\ [][NextNamed]_vars

SpecListener == Init /\ [][NextListener]_vars

SpecSem == Init /\ [][NextSem]_vars

SpecSigExc == Init /\ [][NextSigExc]_vars

SpecSig == Init /\ [][NextSig]_vars

SpecCmdLine == Init /\ [][NextCmdLine]_vars

SpecSemRuns == Init /\ [][NextSemRuns]_vars

SpecEcho == Init /\ [][NextEcho]_vars

SpecNpe == Init /\ [][NextNpe]_vars

\* main of ps-exec-out.c and its child: main takes its next step whenever it
\* can, the child ends in the end.
SpecEoMain ==
    /\ Init
    /\ [][NextEoMain]_vars
    /\ WF_vars(EoMainStep)
    /\ WF_vars(EoChildExit)

\* main of signal-interrupt.c: the main thread keeps running; interrupts come
\* when the user sends them.
SpecIntMain == Init /\ [][NextIntMain]_vars /\ WF_vars(IntMainLoop)

\* The instances of the sample under a fair scheduler: an instance that can
\* take its next step (its user pressing Enter included) takes it in the end.
SpecSemMain ==
    /\ Init
    /\ [][NextSemMain]_vars
    /\ \A p \in Procs : WF_vars(SemMainStep(p))

SpecWaitMain == Init /\ [][NextWaitMain]_vars

\* C2: a non-blocking ps_wait on a live handle whose child is still running
\* returns non-zero, leaves ERR_TIMEDOUT as the last error, and changes
\* neither the handle nor the child.
C2_NonBlockingTimesOut ==
    [][(/\ pslast'.op = "ps_wait"
        /\ pslast'.block = 0
        /\ child.st = "running"
        /\ HandleLive(child))
       => (/\ psret' # 0
           /\ pserr' = ERR_TIMEDOUT
           /\ child' = child)]_vars

C2_Witness ==
    /\ pslast.op = "ps_wait" /\ pslast.block = 0
    /\ child.st = "running" /\ HandleLive(child)
    /\ child.killreq
    /\ psret # 0 /\ pserr = ERR_TIMEDOUT

\* C3: over all the ps_wait calls made on the handle, at most one returns 0.
C3_WaitSucceedsOnce == child.waitok <= 1

C3_Witness ==
    /\ child.waitok = 1
    /\ pslast.op = "ps_wait" /\ pslast.block = 1
    /\ psret # 0

\* C4: once ps_kill has returned 0 on a running child, a blocking ps_wait on
\* the live handle returns 0 and stores the exit code -9, which is outside
\* 0..255.
C4_KillThenWait ==
    [][(/\ pslast'.op = "ps_wait"
        /\ pslast'.block = 1
        /\ pslast'.ec
        /\ child.killok
        /\ HandleLive(child))
       => (/\ psret' = 0
           /\ pscode' = -9
           /\ pscode' \notin 0..255)]_vars

C4_Witness ==
    /\ pslast.op = "ps_wait" /\ pslast.block = 1 /\ pslast.ec
    /\ child.killok
    /\ child.waitok = 1
    /\ psret = 0 /\ pscode = -9

\* C5: ps_exec returns _PS_NULL whenever the program cannot be found or
\* executed or the system refuses to create the process, and a handle it
\* returns is the handle of a program that was started.
C5_ExecFailureIsNull ==
    pslast.op = "ps_exec" =>
        /\ (pslast.path # "ok" \/ pslast.refuse) => psret = _PS_NULL
        /\ psret # _PS_NULL => child.started

\* C6: the exit code a successful ps_wait stores is the child's own code, in
\* 0..255, when the child exited normally, a value outside 0..255 when it was
\* terminated, and never a value that the other kind of ending also yields.
C6_ExitCodeSeparates ==
    (pslast.op = "ps_wait" /\ pslast.ec /\ psret = 0) =>
        /\ child.how = "exit" =>
              /\ pscode = child.status
              /\ pscode \in 0..255
              /\ \A a \in AbnormalStatus : Reported("kill", a) # pscode
        /\ child.how = "kill" =>
              /\ pscode \notin 0..255
              /\ \A c \in ExitCodes : Reported("exit", c) # pscode

\* C7: ps_kill neither reaps the child nor closes the handle; the handle goes
\* Running, Terminated, Closed, one state at a time and never back; and it is
\* a successful ps_wait or a ps_close that takes it to Closed.
C7_Lifecycle ==
    [][/\ pslast'.op = "ps_kill" => Consumed(child') = Consumed(child)
       /\ Life(child) >= 1 => Life(child') \in {Life(child), Life(child) + 1}
       /\ (Life(child') = 3 /\ Life(child) # 3) =>
              \/ pslast'.op = "ps_wait" /\ psret' = 0
              \/ pslast'.op = "ps_close"]_vars

\* C7, amended: as C7, except that ps_close on a Running handle takes it to
\* Closed at once.
C7_LifecycleWithClose ==
    [][/\ pslast'.op = "ps_kill" => Consumed(child') = Consumed(child)
       /\ Life(child) >= 1 =>
              \/ Life(child') \in {Life(child), Life(child) + 1}
              \/ /\ Life(child) = 1 /\ Life(child') = 3
                 /\ pslast'.op = "ps_close"
       /\ (Life(child') = 3 /\ Life(child) # 3) =>
              \/ pslast'.op = "ps_wait" /\ psret' = 0
              \/ pslast'.op = "ps_close"]_vars

C7_Witness ==
    /\ pslast.op = "ps_wait" /\ psret = 0
    /\ child.killok
    /\ Life(child) = 3

\* C8: ps_close is never applied to a handle that a successful ps_wait has
\* consumed.
C8_CloseOnlyUnconsumed == ~child.badclose

\* C9: a ps_exec_info that started the child has given the child, for each
\* standard stream, the object the stream's binding names when the binding
\* is not PIPE_NULL and the parent's own stream when it is, and has left the
\* parent's descriptors as they were.
C9_RedirectsBoundStreams ==
    [][(pslast'.op = "ps_exec_info" /\ psret' # _PS_NULL /\ child'.started)
       => /\ \A s \in Streams :
                cstd'[s] = IF ei'[s] = PIPE_NULL THEN pfd[StdFd(s)]
                           ELSE pfd[ei'[s]]
          /\ pfd' = pfd]_vars

\* C10: on an open listening pipe, pipe_accept returns a connection, whether
\* the client connected before it was called or while it was waiting; and on
\* an accepted connection the bytes the server has read, followed by those
\* still in flight, are the bytes the client wrote.
C10_AcceptThenRead ==
    /\ (nplast.op = "pipe_accept" /\ lsn = "open") => npret # PIPE_NULL
    /\ \A c \in Clients :
          sfd[c] = "open" => chan[c].recvd \o chan[c].buf = cli[c].sent

\* C11: pipe_close on the listening pipe leaves every accepted connection as
\* it was: the server's end stays open, and the bytes in flight on it stay
\* readable.
C11_ListenerCloseKeepsConnection ==
    [][nplast'.op = "pipe_close" =>
          \A c \in Clients :
              sfd[c] = "open" => (sfd'[c] = "open" /\ chan'[c] = chan[c])]_vars

\* C12: on an open listening pipe whose accepted connections have all been
\* released with pipe_peer_close, a pipe_accept that returns gives a
\* connection to the next client; and pipe_peer_close leaves the listening
\* pipe open.
C12_AcceptAgain ==
    [][/\ (/\ nplast'.op = "pipe_accept"
           /\ lsn = "open"
           /\ srv.released
           /\ \A c \in Clients : sfd[c] # "open")
          => (/\ npret' # PIPE_NULL
              /\ nplast'.c \in Clients
              /\ sfd[nplast'.c] = "none"
              /\ sfd'[nplast'.c] = "open")
       /\ nplast'.op = "pipe_peer_close" => lsn' = lsn]_vars

C12_Witness ==
    /\ os = "win"
    /\ nplast.op = "pipe_accept"
    /\ lsn = "open"
    /\ srv.released
    /\ npret # PIPE_NULL
    /\ sfd[1] = "closed"
    /\ sfd[MaxClients] = "open"

\* C13: on POSIX pipe_close of the listening pipe leaves the name in place;
\* pipe_create_named returns PIPE_NULL while the name exists, whether the
\* earlier listening pipe is closed or not; with the name gone it succeeds;
\* and called right after unlink, as the server does, it succeeds.
C13_NameOutlivesListener ==
    [][os = "unix" =>
         /\ nplast'.op = "pipe_close" => nfile' = nfile
         /\ nplast'.op = "pipe_create_named" =>
              /\ nfile => (npret' = PIPE_NULL /\ lsn' = lsn)
              /\ (~nfile /\ nplast'.ok) =>
                    (npret' # PIPE_NULL /\ lsn' = "open" /\ nfile')
              /\ (nplast.op = "unlink" /\ nplast'.ok) => npret' # PIPE_NULL]_vars

C13_Witness ==
    /\ os = "unix"
    /\ nplast.op = "pipe_create_named" /\ nplast.ok
    /\ npret # PIPE_NULL
    /\ lsn = "open" /\ nfile
    /\ \E c \in Clients : sfd[c] = "closed"

\* C14: the counter of every semaphore is at least 0 and equals the value it
\* was created with plus the completed cpsem_post calls minus the completed
\* cpsem_wait calls; a cpsem_wait returns 0 only from a state where the
\* counter is above 0, and takes exactly one from it.
C14_CounterAccounts ==
    [][/\ \A o \in Sems :
            sobj'[o].live => (sobj'[o].val >= 0 /\ sobj'[o].val = sobj'[o].net)
       /\ (semlast'.op = "cpsem_wait" /\ semret' = 0) =>
            /\ sobj[semlast'.o].val > 0
            /\ sobj'[semlast'.o].val = sobj[semlast'.o].val - 1]_vars

C14_Witness ==
    /\ semlast.op = "cpsem_wait" /\ semret = 0
    /\ sobj[semlast.o].posted
    /\ sobj[semlast.o].val = 0
    /\ \E p \in Procs : spc[p] = "waiting" /\ sh[p] = semlast.o

\* C15: on a semaphore created with the value 1 the first cpsem_wait returns
\* at once; while no cpsem_post has been made on it no other cpsem_wait
\* returns; and a process waiting in cpsem_wait on a semaphore that has been
\* posted leaves cpsem_wait in the end.
C15_SecondWaitBlocksUntilPost ==
    /\ [][/\ (/\ semlast'.op \in {"cpsem_wait", "cpsem_wait_block"}
              /\ ~semlast'.blocked
              /\ sobj[semlast'.o].val = 1
              /\ ~sobj[semlast'.o].posted)
             => (semlast'.op = "cpsem_wait" /\ semret' = 0)
          /\ (semlast'.op = "cpsem_wait" /\ ~sobj[semlast'.o].posted)
             => (sobj[semlast'.o].val = 1 /\ ~semlast'.blocked)]_vars
    /\ \A p \in Procs :
          (spc[p] = "waiting" /\ sobj[sh[p]].posted) ~> (spc[p] # "waiting")

C15_Witness ==
    /\ semlast.op = "cpsem_wait" /\ semlast.blocked /\ semret = 0
    /\ sobj[semlast.o].posted
    /\ \E p \in Procs : smain[p] = "region" /\ sh[p] = semlast.o
    /\ \E p \in Procs : smain[p] \in {"posted", "done"}

\* C16: cpsem_unlink leaves every handle and the semaphore behind it as they
\* were; a handle always refers to a live semaphore; and cpsem_post and
\* cpsem_wait through a handle whose semaphore has lost its name return 0 and
\* act on that semaphore's counter.
C16_UnlinkKeepsHandles ==
    [][/\ semlast'.op = "cpsem_unlink" =>
            /\ sh' = sh
            /\ \A p \in Procs :
                  sh[p] # CPSEM_NULL => sobj'[sh[p]] = sobj[sh[p]]
       /\ \A p \in Procs : sh'[p] # CPSEM_NULL => sobj'[sh'[p]].live
       /\ (semlast'.op = "cpsem_post" /\ semlast'.o # semname) =>
            (semret' = 0 /\ sobj'[semlast'.o].val = sobj[semlast'.o].val + 1)
       /\ (semlast'.op = "cpsem_wait" /\ semlast'.o # semname) =>
            (semret' = 0 /\ sobj'[semlast'.o].val = sobj[semlast'.o].val - 1)]_vars

C16_Witness ==
    /\ os = "unix"
    /\ semlast.op = "cpsem_wait" /\ semlast.blocked /\ semret = 0
    /\ semlast.o # semname
    /\ sobj[semlast.o].posted
    /\ \A p \in Procs : sh[p] = semlast.o

\* C17: with every handle closed and the name free, cpsem_open(name,
\* CPSEM_CREATE, v) returns a semaphore whose counter is v, whatever the last
\* value of the semaphore before it.
C17_FreshCounter ==
    [][(/\ semlast'.op = "cpsem_open"
        /\ semlast'.create
        /\ \A p \in Procs : sh[p] = CPSEM_NULL
        /\ semname = 0)
       => (/\ semret' # CPSEM_NULL
           /\ sobj'[semret'].val = semlast'.v
           /\ sobj'[semret'].net = semlast'.v
           /\ ~sobj'[semret'].posted)]_vars

C17_Witness ==
    /\ semlast.op = "cpsem_open" /\ semlast.create
    /\ semret # CPSEM_NULL
    /\ semlast.gone >= 0
    /\ semlast.gone # semlast.v
    /\ sobj[semret].val = semlast.v
    /\ \E p \in Procs : sh[p] = semret /\ \A q \in Procs \ {p} : sh[q] = CPSEM_NULL

\* The kinds passed to the latest sig_subscribe
SubscribedKinds == {siglast.sigs[i] : i \in 1..Len(siglast.sigs)}

\* The process handles access violations
SegvHandled == IF os = "unix" THEN sigact[SIGSEGV] # "dfl" ELSE sigfilter

\* C18: once sig_subscribe returned 0 for kinds that include CPSIG_SEGV,
\* access violations are handled; the illegal access of sig_raise then calls
\* the subscribed handler exactly once, with sig = CPSIG_SEGV and addr = the
\* faulting address, which is not null, and ends the subscription: the
\* instruction that faults again does not call the handler.
C18_SegvHandledOnce ==
    /\ [](siglast.op = "sig_subscribe" /\ sigret = 0
            /\ CPSIG_SEGV \in SubscribedKinds => SegvHandled)
    /\ [][/\ (siglast'.op = "sig_raise" /\ siglast'.exc.code = CPSIG_SEGV
                /\ SegvHandled)
             => /\ siglog' = Append(siglog,
                                    [h |-> sigusr, sig |-> CPSIG_SEGV,
                                     addr |-> FAULT_ADDR,
                                     onalt |-> siglog'[Len(siglog')].onalt])
                /\ FAULT_ADDR # 0
                /\ ~SegvHandled'
          /\ siglast'.op = "retry" => siglog' = siglog /\ sigps' = "dead"
         ]_vars

C18_Witness ==
    /\ siglast.op = "retry"
    /\ sigps = "dead"
    /\ Len(siglog) = 1
    /\ siglog[1].sig = CPSIG_SEGV
    /\ siglog[1].addr = FAULT_ADDR

\* C19: right after sig_subscribe returned 0 for kinds that contain
\* CPSIG_STACK, wherever it stands in the list and whether CPSIG_SEGV comes
\* before or after it, SIGSEGV is handled on the alternate stack and that
\* stack is set (POSIX).
C19_SegvOnAltStack ==
    (os = "unix" /\ siglast.op = "sig_subscribe" /\ sigret = 0
        /\ CPSIG_STACK \in SubscribedKinds)
    => sigact[SIGSEGV] = "onstack" /\ sigalt

C19_Witness ==
    /\ os = "unix"
    /\ siglast.op = "sig_subscribe"
    /\ sigret = 0
    /\ siglast.sigs = <<CPSIG_STACK, CPSIG_SEGV>>
    /\ sigact[SIGSEGV] = "onstack"

\* C20: each channel calls one handler per delivery and it is the one passed
\* to the latest subscription: a fault calls the handler of the latest
\* sig_subscribe, an interrupt the handler of the latest sig_int_subscribe.
C20_LastSubscriptionWins ==
    [][/\ siglog' # siglog
            => sublast # 0
               /\ Len(siglog') = Len(siglog) + 1
               /\ SubSeq(siglog', 1, Len(siglog)) = siglog
               /\ siglog'[Len(siglog')].h = sublast
       /\ intlog' # intlog
            => intsub # 0 /\ intlog' = Append(intlog, intsub)
       /\ sigusr' = sublast' /\ intusr' = intsub'
      ]_vars

C20_Witness ==
    /\ intlog = <<1, 2>>
    /\ intsub = 2
    /\ intps = "running"

\* C21: main leaves the loop only after an interrupt was delivered, and once
\* the handler has set quit main leaves the loop in the end, unless another
\* console event ends the process first.
C21_QuitObserved ==
    /\ [][imain' = "done" => intlog # <<>>]_vars
    /\ (imain = "loop" /\ quit # 0) ~> (imain = "done" \/ intps = "dead")

\* C22: the command line handed to CreateProcessW is argv[0], argv[1], ...
\* joined by one space each, nothing before, after or added, and ends inside
\* the buffer.
C22_JoinedBySpaces ==
    clres.ret = "create"
    => /\ CommandLine(clres.wargs).inside
       /\ CommandLine(clres.wargs).text = Joined(clargv)

\* C25: ps_exec returns _PS_NULL or hands over a command line that ends
\* inside wargs, and never stores at an index outside the buffer, never
\* passes a remaining capacity of 0 and never one that wrapped.
C25_InsideBuffer ==
    /\ clres.ret = "create" => CommandLine(clres.wargs).inside
    /\ ~clres.oob
    /\ ~clres.zero
    /\ ~clres.wrap

\* C23: once the child has ended, main's pipe_read returns, with 0 when the
\* child wrote nothing, and main runs to its end.
C23_ReadReturns ==
    /\ [][(eom = "spawned" /\ eom' = "read" /\ eosent = 0) => eon' = 0]_vars
    /\ (eom = "spawned" /\ child.st = "exited") ~> (eom \in {"done", "abort"})

\* The instances inside the semaphore-protected region: cpsem_wait has
\* returned 0 and cpsem_post has not been called.
InRegion == {p \in Procs : smain[p] \in {"region", "leaving"}}

\* C24: at most one instance of the semaphore sample is inside the protected
\* region at a time, whatever instances run with 'unlink'.
C24_OneInRegion == Cardinality(InRegion) <= 1

\* What stdout shows for the bytes bs: the bytes, or on a console the
\* characters they encode.
Shown(bs) ==
    IF os = "win" /\ ekind.out = "console" THEN Utf16(bs) ELSE bs

\* C26: what has reached stdout is what stdin_read has returned, in order
\* and once each, less the bytes of the chunk still to be written; main goes
\* on while stdin_read returns a positive value and stops at the first one
\* that is not.
C26_EchoesInput ==
    /\ [](/\ eout = Shown(Take(eread, Len(eread) - Len(echunk)))
          /\ Drop(eread, Len(eread) - Len(echunk)) = echunk
          /\ epos = "done" => echunk = <<>>)
    /\ [][/\ epos = "read" => (epos' = "done" <=> er' <= 0)
          /\ epos' = "done" => epos = "read"]_vars

\* C27: a pipe_create_named or pipe_connect that fails returns PIPE_NULL with
\* the descriptors as they were before the call; a name that does not fit
\* sun_path with its terminator fails with EINVAL and no socket made; a call
\* that succeeds returns the socket it made, which is then open.
C27_FailureLeavesNoDescriptor ==
    npcall.op \in {"pipe_create_named", "pipe_connect"}
    => /\ npcall.r = PIPE_NULL => npfds = npcall.before
       /\ npcall.len + 1 > SUN_PATH_SIZE
            => npcall.r = PIPE_NULL /\ npcall.errno = "EINVAL"
               /\ npcall.sock = -1
       /\ npcall.r # PIPE_NULL
            => /\ npcall.r = npcall.sock
               /\ npcall.r \notin npcall.before
               /\ npfds = npcall.before \cup {npcall.r}

C27_Witness ==
    /\ npcall.op = "pipe_create_named"
    /\ npcall.r = PIPE_NULL
    /\ npcall.sock # -1
    /\ npcall.before # {}
    /\ npfds = npcall.before

====
